---- MODULE Spec2Model ----
(***************************************************************************)
(* Model of code-context-for-llm: the directory scanner                    *)
(* (src/src/file_processor.py) and the document generator                  *)
(* (src/src/xml_generator.py).                                             *)
(*                                                                         *)
(* Strings are sequences of character codes, so that suffix extraction,    *)
(* lower-casing, path joining and sorting are computed as the code         *)
(* computes them.  A name such as "a.t" is <<97, 46, 116>>.                *)
(***************************************************************************)
EXTENDS Integers, Sequences, FiniteSets, TLC

VARIABLES
    fs,                     \* the filesystem below the scan root: a set of entries
    phase,                  \* "setup" while the tree is being laid out, "ready" once scanned
    config,                 \* FileProcessor.config
    structure_items_count,  \* FileProcessor.structure_items_count (dict depth -> count)
    content_files_by_depth, \* FileProcessor.content_files_by_depth (dict depth -> count)
    files_content,          \* FileProcessor.files_content (list of records)
    result,                 \* the ScanResult returned by the last scan_directory, <<>> if none
    xml_arg,                \* what generate_xml was last called with: "none", "ScanResult", "list"
    xml_out,                \* outcome of the last generate_xml call
    tag_call,               \* the last call of a tag-name function: its name, input and output
    scan_status,            \* how the last scan_directory call ended: "none", "returned", "FileNotFoundError"
    prev_result,            \* the ScanResult returned by the scan before the last one, <<>> if none
    manager,                \* ConfigManager: the file it last loaded and its _config (<<>> for None)
    main_run,               \* the last run of main: stages called, the stage that raised, exit code
    heap,                   \* the list objects: lists by identity, the one self.files_content names, the first ScanResult returned
    dicts,                  \* the dict objects: the rule dicts by identity, the dict ConfigManager._config names, the objects constructed
    procs                   \* two FileProcessor instances scanning step by step, and the counter dicts

vars == <<fs, phase, config, structure_items_count, content_files_by_depth,
          files_content, result, xml_arg, xml_out, tag_call, scan_status, prev_result,
          manager,
          main_run,
          heap,
          dicts,
          procs>>

(***************************************************************************)
(* Bounds of the model.                                                    *)
(***************************************************************************)
MaxEntries == 4      \* entries (files and directories) below the scan root
MaxDepthCfg == 1     \* largest max_depth a configuration sets
MaxFilesCfg == 1     \* largest max_files a configuration sets

\* directories nest one level deeper than the largest max_depth lets the walk go
MaxTreeDepth == MaxDepthCfg + 1

MaxTagLen == 3       \* longest string handed to the tag-name functions

(***************************************************************************)
(* Characters and names.                                                   *)
(***************************************************************************)
SLASH == 47
DOT == 46

RootName == <<112>>                       \* "p"

\* directory names: "d", "E", "g"
DirNames == { <<100>>, <<69>>, <<103>> }

\* the directories of the universe: any name directly below the root, and
\* below that a chain of directories named "d"
DirPaths ==
    {<<>>} \cup {<<n>> : n \in DirNames}
           \cup {[i \in 1..k |-> <<100>>] : k \in 2..MaxTreeDepth}

\* file names: "a.t" "c.s" "d.c" "e.l" (text), "b.s" (text, no read permission)
FileNames == { <<97, 46, 116>>, <<98, 46, 115>>, <<99, 46, 115>>, <<100, 46, 99>>,
               <<101, 46, 108>> }

\* one more text file, "f.t", for the trees on which the caps are studied
MoreFileNames == { <<102, 46, 116>> }

\* the files of the universe: any file name in the root and in "d", and "a.t"
\* in every other directory
FilesIn(parent) ==
    IF parent \in {<<>>, << <<100>> >>} THEN FileNames \cup MoreFileNames
    ELSE { <<97, 46, 116>> }

\* st_size of a file, in bytes
FileSize(name) == 2 * Len(name)

\* whether the bytes of the file decode as UTF-8
DecodesUtf8(name) == name # <<120, 46, 116>>

\* whether open() on the file succeeds (FALSE: PermissionError)
CanOpen(name) == name # <<98, 46, 115>>

\* names of symbolic links whose target is missing: "a.k".  For such an entry
\* is_dir() and is_file() are both False and stat() raises FileNotFoundError
LinkNames == { <<97, 46, 107>> }

\* whether stat() on the entry raises
StatRaises(name) == name \in LinkNames

\* the text read from a file: its own name stands for its content, except
\* that "c.s" holds the control character U+0001 (valid UTF-8, not a
\* character XML 1.0 allows) in place of the dot
FileText(name) == IF name = <<99, 46, 115>> THEN <<99, 1, 115>> ELSE name

(***************************************************************************)
(* String helpers.                                                         *)
(***************************************************************************)
\* str.lower() on the ASCII range
LowerChar(c) == IF c >= 65 /\ c <= 90 THEN c + 32 ELSE c

Lower(s) == [i \in 1..Len(s) |-> LowerChar(s[i])]

\* str.rfind('.') as a 1-based position, 0 when there is no dot
RFindDot(s) ==
    LET dots == {i \in 1..Len(s) : s[i] = DOT}
    IN IF dots = {} THEN 0 ELSE CHOOSE i \in dots : \A j \in dots : j <= i

\* pathlib's Path.suffix: the last dot-part, unless the dot leads or ends the name
Suffix(s) ==
    LET i == RFindDot(s)
    IN IF i > 1 /\ i < Len(s) THEN SubSeq(s, i, Len(s)) ELSE <<>>

\* mutant: the path of a file is its bare name
JoinPath_m(rel, name) == name

\* f"{rel}/{name}"
JoinPath(rel, name) == rel \o <<SLASH>> \o name

\* lexicographic order of two strings, as Python compares str
RECURSIVE StrLess(_, _)
StrLess(a, b) ==
    IF b = <<>> THEN FALSE
    ELSE IF a = <<>> THEN TRUE
    ELSE IF Head(a) # Head(b) THEN Head(a) < Head(b)
    ELSE StrLess(Tail(a), Tail(b))

(***************************************************************************)
(* The filesystem.  An entry is [path, kind]: path is the sequence of      *)
(* names from the scan root down to the entry, kind is "dir", "file" or   *)
(* "link" (a symbolic link to a missing target).                           *)
(***************************************************************************)
EntryName(e) == e.path[Len(e.path)]

ParentPath(e) == SubSeq(e.path, 1, Len(e.path) - 1)

\* Path.iterdir(): the entries lying directly in the directory at path p
IterDir(fsys, p) == {e \in fsys : Len(e.path) = Len(p) + 1 /\ ParentPath(e) = p}

\* the sort key (x.is_file(), x.name.lower()) compared as a tuple
KeyLess(a, b) ==
    LET fa == (a.kind = "file")
        fb == (b.kind = "file")
    IN IF fa # fb THEN fb ELSE StrLess(Lower(EntryName(a)), Lower(EntryName(b)))

\* sorted(path.iterdir(), key=...); no two names of the universe share a key
RECURSIVE SortedItems(_)
SortedItems(S) ==
    IF S = {} THEN <<>>
    ELSE LET m == CHOOSE x \in S : \A y \in S \ {x} : KeyLess(x, y)
         IN <<m>> \o SortedItems(S \ {m})

(***************************************************************************)
(* Configurations (config_manager.py builds this dictionary).              *)
(***************************************************************************)
ConfigSpace ==
    { [max_file_size_kb |-> 1,
       content_exclude |-> [extensions |-> { <<46, 108>> },       \* ".l"
                            files |-> { <<100, 46, 99>> },        \* "d.c"
                            max_depth |-> cd, max_files |-> cf],
       structure_exclude |-> [extensions |-> { <<46, 115>> },     \* ".s"
                              directories |-> { <<103>> },        \* "g"
                              files |-> { <<101, 46, 108>> },     \* "e.l"
                              max_depth |-> sd, max_files |-> sf]] :
      cd \in 0..MaxDepthCfg, cf \in 1..MaxFilesCfg,
      sd \in 0..MaxDepthCfg, sf \in 1..MaxFilesCfg }

EmptyDict == [k \in {} |-> 0]

(***************************************************************************)
(* FileProcessor._should_include_content: "True", "False", or "raise"      *)
(* when _is_utf8 lets the error of open() escape.                          *)
(***************************************************************************)
IsUtf8(name) ==
    IF ~CanOpen(name) THEN "raise"
    ELSE IF DecodesUtf8(name) THEN "True" ELSE "False"

ShouldIncludeContent(cfg, name) ==
    IF StatRaises(name) THEN "False"
    ELSE IF FileSize(name) > cfg.max_file_size_kb * 1024 THEN "False"
    ELSE IF Suffix(name) \in cfg.content_exclude.extensions THEN "False"
    ELSE IF name \in cfg.content_exclude.files THEN "False"
    ELSE IsUtf8(name)

\* mutant: the depth test is off by one
DepthExceeded_m(cfg, current_depth) == current_depth > cfg.structure_exclude.max_depth + 1

\* line 78: the structure depth limit stops the recursion
DepthExceeded(cfg, current_depth) == current_depth > cfg.structure_exclude.max_depth

\* mutant: the excluded directory names are not consulted
DirIncluded_m(cfg, name) == TRUE

\* line 96: a subdirectory is walked unless its name is excluded from the structure
DirIncluded(cfg, name) == name \notin cfg.structure_exclude.directories

\* lines 103-104: the structure filters of a file
PassesStructureFilters(cfg, name) ==
    /\ Suffix(name) \notin cfg.structure_exclude.extensions
    /\ name \notin cfg.structure_exclude.files

\* line 105: the structure counter of this depth is below the cap
StructureCapOpen(cfg, sic, current_depth) ==
    sic[current_depth] < cfg.structure_exclude.max_files

\* mutant: the content depth test is off by one
ContentDepthOk_m(cfg, current_depth) == current_depth <= cfg.content_exclude.max_depth + 1

\* line 112: the content depth limit
ContentDepthOk(cfg, current_depth) == current_depth <= cfg.content_exclude.max_depth

\* mutant: the content cap is not consulted
ContentCapOpen_m(cfg, cfd, current_depth) == TRUE

\* line 116: the content counter of this depth is below the cap
ContentCapOpen(cfg, cfd, current_depth) ==
    cfd[current_depth] < cfg.content_exclude.max_files

\* the dataclass DirectoryStructure
DirectoryStructure(name, path, is_dir, children, depth) ==
    [name |-> name, path |-> path, is_dir |-> is_dir, children |-> children, depth |-> depth]

(***************************************************************************)
(* The body of the loop of _process_directory for a file.  st is the       *)
(* state of the walk: the children of the directory node so far, the two   *)
(* counters, the record list, and whether an exception left the loop.      *)
(***************************************************************************)
StructureFilePart(cfg, st, name, current_depth, rel) ==
    IF /\ PassesStructureFilters(cfg, name)
       /\ StructureCapOpen(cfg, st.sic, current_depth)
    THEN [st EXCEPT !.children = Append(@, DirectoryStructure(name, JoinPath(rel, name),
                                                         FALSE, <<>>, current_depth)),
                    !.sic[current_depth] = @ + 1]
    ELSE st

ContentFilePart(cfg, st, name, current_depth, rel) ==
    IF ContentDepthOk(cfg, current_depth)
    THEN LET inc == ShouldIncludeContent(cfg, name)
         IN IF inc = "raise" THEN [st EXCEPT !.raised = TRUE]
            ELSE IF inc = "True"
            THEN LET cfd == IF current_depth \in DOMAIN st.cfd THEN st.cfd
                            ELSE (current_depth :> 0) @@ st.cfd
                 IN IF ContentCapOpen(cfg, cfd, current_depth)
                    THEN [st EXCEPT !.cfd = [cfd EXCEPT ![current_depth] = @ + 1],
                                    !.fc = Append(@, [path |-> JoinPath(rel, name),
                                                      content |-> FileText(name),
                                                      depth |-> current_depth])]
                    ELSE [st EXCEPT !.cfd = cfd]
            ELSE st
    ELSE st

\* mutant: the content part is nested in the structure part, so that a file
\* gets a record only when it got a node
ProcessFile_m(cfg, st, name, current_depth, rel) ==
    LET s1 == StructureFilePart(cfg, st, name, current_depth, rel)
    IN IF s1 = st THEN st ELSE ContentFilePart(cfg, s1, name, current_depth, rel)

ProcessFile(cfg, st, name, current_depth, rel) ==
    ContentFilePart(cfg, StructureFilePart(cfg, st, name, current_depth, rel),
                    name, current_depth, rel)

(***************************************************************************)
(* FileProcessor._process_directory.  p is the path of the directory in    *)
(* the filesystem (<<>> for the scan root), w the state of the walk        *)
(* [sic, cfd, fc].  Returns [node, sic, cfd, fc]; node is <<>> for None    *)
(* and <<n>> for a node n.                                                 *)
(***************************************************************************)
RECURSIVE ProcessDirectory(_, _, _, _, _, _, _)
RECURSIVE ProcessItems(_, _, _, _, _, _, _)

ProcessItems(fsys, cfg, items, st, p, current_depth, rel) ==
    IF items = <<>> \/ st.raised THEN st
    ELSE LET item == Head(items)
             name == EntryName(item)
             st1 ==
               IF item.kind = "dir"
               THEN IF DirIncluded(cfg, name)
                    THEN LET sub == ProcessDirectory(fsys, cfg, Append(p, name), name,
                                        [sic |-> st.sic, cfd |-> st.cfd, fc |-> st.fc],
                                        current_depth + 1, rel)
                             st0 == [st EXCEPT !.sic = sub.sic, !.cfd = sub.cfd, !.fc = sub.fc]
                         IN IF sub.node # <<>>
                            THEN [st0 EXCEPT !.children = Append(@, sub.node[1]),
                                             !.sic[current_depth] = @ + 1]
                            ELSE st0
                    ELSE st
               ELSE ProcessFile(cfg, st, name, current_depth, rel)
         IN ProcessItems(fsys, cfg, Tail(items), st1, p, current_depth, rel)

ProcessDirectory(fsys, cfg, p, name, w, current_depth, current_rel_path) ==
    IF DepthExceeded(cfg, current_depth)
    THEN [node |-> <<>>, sic |-> w.sic, cfd |-> w.cfd, fc |-> w.fc]
    ELSE LET sic0 == IF current_depth \in DOMAIN w.sic THEN w.sic
                     ELSE (current_depth :> 0) @@ w.sic
             rel == IF current_rel_path # <<>> THEN JoinPath(current_rel_path, name) ELSE name
             st == ProcessItems(fsys, cfg, SortedItems(IterDir(fsys, p)),
                                [children |-> <<>>, sic |-> sic0, cfd |-> w.cfd,
                                 fc |-> w.fc, raised |-> FALSE],
                                p, current_depth, rel)
         IN [node |-> <<DirectoryStructure(name, rel, TRUE, st.children, current_depth)>>,
             sic |-> st.sic, cfd |-> st.cfd, fc |-> st.fc]

\* mutant: the counters of the earlier scan are not cleared
Scan_m(fsys, cfg) ==
    ProcessDirectory(fsys, cfg, <<>>, RootName,
                     [sic |-> structure_items_count, cfd |-> content_files_by_depth,
                      fc |-> <<>>], 0, <<>>)

\* what scan_directory computes after resetting the processor's state
Scan(fsys, cfg) ==
    ProcessDirectory(fsys, cfg, <<>>, RootName,
                     [sic |-> EmptyDict, cfd |-> EmptyDict, fc |-> <<>>], 0, <<>>)

(***************************************************************************)
(* XMLGenerator (xml_generator.py).  A document is the list `output` of    *)
(* generate_xml, one element per line:                                     *)
(*   [kind |-> "literal", lit]   a fixed line of the code, as written      *)
(*   [kind |-> "timestamp"]      the generation_timestamp line             *)
(*   [kind |-> "element", tag, text]  <tag>text</tag> on one line          *)
(*   [kind |-> "open", tag], [kind |-> "close", tag]   <tag> and </tag>    *)
(*   [kind |-> "raw", text]      characters inserted as they are           *)
(***************************************************************************)
UNDERSCORE == 95
BACKSLASH == 92

IsAlpha(c) == (c >= 65 /\ c <= 90) \/ (c >= 97 /\ c <= 122)

IsDigit(c) == c >= 48 /\ c <= 57

\* the class [_\-\.] of the second substitution
IsSeparator(c) == c \in {95, 45, 46}

\* the class [a-zA-Z0-9\-_.] of the first substitution
IsTagChar(c) == IsAlpha(c) \/ IsDigit(c) \/ IsSeparator(c)

\* mutant: the pattern is [_\-\.]{2}, so that separators are collapsed pair
\* by pair
RECURSIVE CollapseRuns_m(_)
CollapseRuns_m(s) ==
    IF s = <<>> THEN <<>>
    ELSE IF Len(s) >= 2 /\ IsSeparator(s[1]) /\ IsSeparator(s[2])
    THEN <<UNDERSCORE>> \o CollapseRuns_m(SubSeq(s, 3, Len(s)))
    ELSE <<s[1]>> \o CollapseRuns_m(Tail(s))

\* re.sub(r'[_\-\.]{2,}', '_', s): every maximal run of two or more
\* separators becomes one underscore
RECURSIVE CollapseRuns(_)
CollapseRuns(s) ==
    IF s = <<>> THEN <<>>
    ELSE IF ~IsSeparator(s[1]) THEN <<s[1]>> \o CollapseRuns(Tail(s))
    ELSE LET ends == {k \in 1..Len(s) : \A j \in 1..k : IsSeparator(s[j])}
             run == CHOOSE k \in ends : \A j \in ends : j <= k
         IN (IF run >= 2 THEN <<UNDERSCORE>> ELSE <<s[1]>>)
            \o CollapseRuns(SubSeq(s, run + 1, Len(s)))

\* mutant: the first character is not forced to be a letter or underscore
SanitizeTagName_m(name) ==
    LET s1 == [i \in 1..Len(name) |-> IF IsTagChar(name[i]) THEN name[i] ELSE UNDERSCORE]
        s3 == CollapseRuns(s1)
    IN IF s3 # <<>> THEN s3 ELSE <<95, 102, 105, 108, 101>>

\* XMLGenerator._sanitize_tag_name
SanitizeTagName(name) ==
    LET s1 == [i \in 1..Len(name) |-> IF IsTagChar(name[i]) THEN name[i] ELSE UNDERSCORE]
        s2 == IF s1 = <<>> \/ ~(IsAlpha(s1[1]) \/ s1[1] = UNDERSCORE)
              THEN <<UNDERSCORE>> \o s1 ELSE s1
        s3 == CollapseRuns(s2)
    IN IF s3 # <<>> THEN s3 ELSE <<95, 102, 105, 108, 101>>     \* '_file'

\* XMLGenerator._create_tag_name
CreateTagName(path) ==
    SanitizeTagName([i \in 1..Len(path) |->
                        IF path[i] \in {SLASH, BACKSLASH} THEN UNDERSCORE ELSE path[i]])

\* whether the string p occurs in s at position i
OccursAt(s, p, i) == i + Len(p) - 1 <= Len(s) /\ SubSeq(s, i, i + Len(p) - 1) = p

\* str.replace(old, new): the occurrences of old, leftmost first, not overlapping
RECURSIVE Replace(_, _, _)
Replace(s, old, new) ==
    IF s = <<>> THEN <<>>
    ELSE IF OccursAt(s, old, 1)
    THEN new \o Replace(SubSeq(s, Len(old) + 1, Len(s)), old, new)
    ELSE <<s[1]>> \o Replace(Tail(s), old, new)

CDataOpen == <<60, 33, 91, 67, 68, 65, 84, 65, 91>>         \* '<![CDATA['
CDataClose == <<93, 93, 62>>                                 \* ']]>'
CDataSplit == <<93, 93, 93, 93, 62, 60, 33, 91, 67, 68, 65, 84, 65, 91, 62>>  \* ']]]]><![CDATA[>'
CDataEndPlaceholder == <<95, 95, 67, 68, 65, 84, 65, 95, 69, 78, 68, 95, 95>> \* '__CDATA_END__'

\* mutant: the content is wrapped as it is
WrapContent_m(content) == CDataOpen \o content \o CDataClose

\* XMLGenerator._wrap_content
WrapContent(content) ==
    LET c1 == Replace(content, CDataEndPlaceholder, CDataEndPlaceholder)
        c2 == Replace(c1, CDataClose, CDataSplit)
    IN CDataOpen \o c2 \o CDataClose

\* xml.sax.saxutils.escape: & < > become entities
RECURSIVE Escape(_)
Escape(s) ==
    IF s = <<>> THEN <<>>
    ELSE (CASE s[1] = 38 -> <<38, 97, 109, 112, 59>>      \* '&amp;'
            [] s[1] = 60 -> <<38, 108, 116, 59>>          \* '&lt;'
            [] s[1] = 62 -> <<38, 103, 116, 59>>          \* '&gt;'
            [] OTHER -> <<s[1]>>) \o Escape(Tail(s))

\* XMLGenerator._generate_project_context
GenerateProjectContext(root_name) ==
    << [kind |-> "literal", lit |-> "<project_context>"],
       [kind |-> "element", tag |-> "project_name", text |-> Escape(root_name)],
       [kind |-> "timestamp"],
       [kind |-> "literal", lit |-> "</project_context>"] >>

\* should_include of _generate_structure: it reads
\* self.config['exclude_structure'], a key the configuration never has
\* (ConfigManager names it 'structure_exclude'), so it raises KeyError
ShouldInclude(cfg, item) ==
    IF "exclude_structure" \in DOMAIN cfg
    THEN IF item.kind = "dir"
         THEN IF EntryName(item) \notin cfg.exclude_structure.directories
              THEN "True" ELSE "False"
         ELSE IF /\ EntryName(item) \notin cfg.exclude_structure.files
                 /\ Suffix(EntryName(item)) \notin cfg.exclude_structure.extensions
              THEN "True" ELSE "False"
    ELSE "KeyError"

\* XMLGenerator._generate_structure: the outline is drawn from a new walk of
\* the filesystem.  The list comprehension of add_to_structure calls
\* should_include on the entries of the root before the root line is
\* appended; the KeyError of the first entry is caught by the handler of
\* add_to_structure, which returns.  Only an empty root yields its line.
GenerateStructure(fsys, cfg, root_name) ==
    IF \E item \in IterDir(fsys, <<>>) : ShouldInclude(cfg, item) = "KeyError"
    THEN <<>>
    ELSE << [kind |-> "raw", text |-> root_name \o <<SLASH>>] >>

\* the loop of generate_xml over the records (lines 163-179)
RECURSIVE FileTags(_)
FileTags(files) ==
    IF files = <<>> THEN <<>>
    ELSE << [kind |-> "open", tag |-> CreateTagName(files[1].path)],
            [kind |-> "raw", text |-> WrapContent(files[1].content)],
            [kind |-> "close", tag |-> CreateTagName(files[1].path)] >>
         \o FileTags(Tail(files))

\* the list `output` of generate_xml when the loop runs over a list of records
BuildOutput(fsys, cfg, root_name, files) ==
    << [kind |-> "literal", lit |-> "<?xml version=\"1.0\" encoding=\"UTF-8\"?>"],
       [kind |-> "literal", lit |-> "<code>"] >>
    \o GenerateProjectContext(root_name)
    \o << [kind |-> "literal", lit |-> "<structure_explanation>"],
          [kind |-> "literal", lit |-> "STRUCTURE_EXPLANATION"],
          [kind |-> "literal", lit |-> "</structure_explanation>"],
          [kind |-> "literal", lit |-> "<structure>"] >>
    \o GenerateStructure(fsys, cfg, root_name)
    \o << [kind |-> "literal", lit |-> "</structure>"] >>
    \o FileTags(files)
    \o << [kind |-> "literal", lit |-> "</code>"] >>

(***************************************************************************)
(* ET.fromstring on the joined output: what makes the text well-formed.    *)
(***************************************************************************)
\* the Char production of XML 1.0 on the code points the model uses
IsXmlChar(c) == c \in {9, 10, 13} \/ c >= 32

\* character data between tags: no '<' except to open a CDATA section, no
\* '&' except to open one of the entities escape() writes, no ']]>' outside
\* a section, every section closed, only XML characters
RECURSIVE CharDataOk(_, _)
CharDataOk(s, in_cdata) ==
    IF s = <<>> THEN ~in_cdata
    ELSE IF in_cdata
    THEN IF OccursAt(s, CDataClose, 1)
         THEN CharDataOk(SubSeq(s, 4, Len(s)), FALSE)
         ELSE IsXmlChar(s[1]) /\ CharDataOk(Tail(s), TRUE)
    ELSE IF OccursAt(s, CDataOpen, 1)
    THEN CharDataOk(SubSeq(s, Len(CDataOpen) + 1, Len(s)), TRUE)
    ELSE IF s[1] = 38
    THEN \E ent \in { <<38, 97, 109, 112, 59>>, <<38, 108, 116, 59>>, <<38, 103, 116, 59>> } :
             OccursAt(s, ent, 1) /\ CharDataOk(SubSeq(s, Len(ent) + 1, Len(s)), FALSE)
    ELSE /\ s[1] # 60
         /\ ~OccursAt(s, CDataClose, 1)
         /\ IsXmlChar(s[1])
         /\ CharDataOk(Tail(s), FALSE)

\* the Name production of XML on ASCII
IsXmlName(t) ==
    /\ t # <<>>
    /\ IsAlpha(t[1]) \/ t[1] \in {95, 58}
    /\ \A i \in 1..Len(t) : IsAlpha(t[i]) \/ IsDigit(t[i]) \/ t[i] \in {95, 58, 45, 46}

\* the computed tags nest: every close matches the last open tag
RECURSIVE TagsNest(_, _)
TagsNest(doc, stack) ==
    IF doc = <<>> THEN stack = <<>>
    ELSE LET l == doc[1]
         IN IF l.kind = "open"
            THEN IsXmlName(l.tag) /\ TagsNest(Tail(doc), <<l.tag>> \o stack)
            ELSE IF l.kind = "close"
            THEN /\ stack # <<>>
                 /\ stack[1] = l.tag
                 /\ TagsNest(Tail(doc), Tail(stack))
            ELSE TagsNest(Tail(doc), stack)

WellFormed(doc) ==
    /\ TagsNest(doc, <<>>)
    /\ \A i \in 1..Len(doc) :
           /\ doc[i].kind = "raw" => CharDataOk(doc[i].text, FALSE)
           /\ doc[i].kind = "element" => CharDataOk(doc[i].text, FALSE)

\* XMLGenerator.generate_xml(root_path, files): "returned" with the document,
\* or the name of the exception it raises.  A ScanResult is not iterable, so
\* the for statement of line 163 raises TypeError, which the outer handler
\* logs and raises again.
\* mutant: the output is returned without the self-check
GenerateXmlOutcome_m(fsys, cfg, root_name, arg_kind, files) ==
    IF arg_kind # "list"
    THEN [status |-> "TypeError", doc |-> <<>>]
    ELSE [status |-> "returned", doc |-> BuildOutput(fsys, cfg, root_name, files)]

GenerateXmlOutcome(fsys, cfg, root_name, arg_kind, files) ==
    IF arg_kind # "list"
    THEN [status |-> "TypeError", doc |-> <<>>]
    ELSE LET output == BuildOutput(fsys, cfg, root_name, files)
         IN IF WellFormed(output)
            THEN [status |-> "returned", doc |-> output]
            ELSE [status |-> "ValueError", doc |-> <<>>]

(***************************************************************************)
(* State machine.                                                          *)
(***************************************************************************)
\* two processors just constructed (lines 31-35): no scan running, each
\* counter dict empty
IdleProcs ==
    [p |-> [i \in 1..2 |-> [pc |-> "idle", root |-> {}, stack |-> <<>>, fc |-> <<>>,
                            result |-> <<>>, mixed |-> FALSE]],
     store |-> [k \in 1..2 |-> [sic |-> EmptyDict, cfd |-> EmptyDict]]]

Init ==
    /\ fs = {}
    /\ phase = "setup"
    /\ config \in ConfigSpace
    /\ structure_items_count = EmptyDict
    /\ content_files_by_depth = EmptyDict
    /\ files_content = <<>>
    /\ result = <<>>
    /\ xml_arg = "none"
    /\ xml_out = [status |-> "none", doc |-> <<>>]
    /\ tag_call = [fn |-> "none", input |-> <<>>, out |-> <<>>]
    /\ scan_status = "none"
    /\ prev_result = <<>>
    /\ manager = [file |-> [kind |-> "none"], config |-> <<>>]
    /\ main_run = [calls |-> <<>>, raised |-> "none", exit_code |-> 0, saved |-> FALSE]
    /\ procs = IdleProcs
    /\ dicts = [objs |-> EmptyDict, manager |-> <<>>, built |-> <<>>]
    /\ heap = [lists |-> EmptyDict, self_fc |-> 0, kept |-> <<>>]

\* a processor whose structure cap is one above its content cap, both depth
\* limits at their largest
InitCaps ==
    /\ fs = {}
    /\ phase = "setup"
    /\ config \in
           {[c EXCEPT !.structure_exclude.max_files = c.content_exclude.max_files + 1] :
               c \in {x \in ConfigSpace :
                          /\ x.structure_exclude.max_depth = MaxDepthCfg
                          /\ x.content_exclude.max_depth = MaxDepthCfg
                          /\ x.structure_exclude.max_files = MaxFilesCfg}}
    /\ structure_items_count = EmptyDict
    /\ content_files_by_depth = EmptyDict
    /\ files_content = <<>>
    /\ result = <<>>
    /\ xml_arg = "none"
    /\ xml_out = [status |-> "none", doc |-> <<>>]
    /\ tag_call = [fn |-> "none", input |-> <<>>, out |-> <<>>]
    /\ scan_status = "none"
    /\ prev_result = <<>>
    /\ manager = [file |-> [kind |-> "none"], config |-> <<>>]
    /\ main_run = [calls |-> <<>>, raised |-> "none", exit_code |-> 0, saved |-> FALSE]
    /\ procs = IdleProcs
    /\ dicts = [objs |-> EmptyDict, manager |-> <<>>, built |-> <<>>]
    /\ heap = [lists |-> EmptyDict, self_fc |-> 0, kept |-> <<>>]

\* The tree is laid out entry by entry, shorter paths first and paths of one
\* length in the order of their names, so that each tree is built in one way.
RECURSIVE SeqLess(_, _)
SeqLess(p, q) ==
    IF q = <<>> THEN FALSE
    ELSE IF p = <<>> THEN TRUE
    ELSE IF Head(p) # Head(q) THEN StrLess(Head(p), Head(q))
    ELSE SeqLess(Tail(p), Tail(q))

CreatedAfter(fsys, p) ==
    \A e \in fsys : \/ Len(e.path) < Len(p)
                    \/ Len(e.path) = Len(p) /\ SeqLess(e.path, p)

\* the environment lays out the tree before the scan: mkdir
Mkdir(parent, name) ==
    /\ phase = "setup"
    /\ Cardinality(fs) < MaxEntries
    /\ CreatedAfter(fs, Append(parent, name))
    /\ Append(parent, name) \in DirPaths
    /\ parent = <<>> \/ [path |-> parent, kind |-> "dir"] \in fs
    /\ \A e \in fs : e.path # Append(parent, name)
    /\ fs' = fs \cup {[path |-> Append(parent, name), kind |-> "dir"]}
    /\ UNCHANGED <<phase, config, structure_items_count, content_files_by_depth,
                   files_content, result, xml_arg, xml_out, tag_call,
                   scan_status, prev_result, manager,
                   main_run,
                   heap,
                   dicts,
                   procs>>

\* the environment lays out the tree before the scan: a file is written
CreateFile(parent, name) ==
    /\ phase = "setup"
    /\ Cardinality(fs) < MaxEntries
    /\ name \in FilesIn(parent)
    /\ CreatedAfter(fs, Append(parent, name))
    /\ parent = <<>> \/ [path |-> parent, kind |-> "dir"] \in fs
    /\ \A e \in fs : e.path # Append(parent, name)
    /\ fs' = fs \cup {[path |-> Append(parent, name), kind |-> "file"]}
    /\ UNCHANGED <<phase, config, structure_items_count, content_files_by_depth,
                   files_content, result, xml_arg, xml_out, tag_call,
                   scan_status, prev_result, manager,
                   main_run,
                   heap,
                   dicts,
                   procs>>

\* the environment lays out the tree before the scan: a symbolic link to a
\* target that does not exist
Symlink(parent, name) ==
    /\ phase = "setup"
    /\ Cardinality(fs) < MaxEntries
    /\ name \in LinkNames
    /\ CreatedAfter(fs, Append(parent, name))
    /\ parent = <<>> \/ [path |-> parent, kind |-> "dir"] \in fs
    /\ \A e \in fs : e.path # Append(parent, name)
    /\ fs' = fs \cup {[path |-> Append(parent, name), kind |-> "link"]}
    /\ UNCHANGED <<phase, config, structure_items_count, content_files_by_depth,
                   files_content, result, xml_arg, xml_out, tag_call,
                   scan_status, prev_result, manager,
                   main_run,
                   heap,
                   dicts,
                   procs>>

(***************************************************************************)
(* List objects.  h.lists maps the identity of a list to its elements,     *)
(* h.self_fc is the list the attribute self.files_content names (0 before  *)
(* the first scan: __init__ does not set the attribute), h.kept            *)
(* is <<>> or holds the first ScanResult a caller got: its structure, the  *)
(* identity of its files_content list, and the value of that list when     *)
(* scan_directory returned.  Lists that nothing names any more are dropped.*)
(***************************************************************************)
LiveLists(h) == {h.kept[i].files_content : i \in 1..Len(h.kept)}

\* mutant: the list, once there is one, is emptied in place, as the two
\* counters are
ResetFilesContent_m(h) ==
    IF h.self_fc = 0 THEN [h EXCEPT !.self_fc = 1, !.lists = (1 :> <<>>)]
    ELSE [h EXCEPT !.lists[h.self_fc] = <<>>]

\* line 145, self.files_content = []: the attribute names a new list
ResetFilesContent(h) ==
    LET new == CHOOSE i \in 1..(Cardinality(LiveLists(h)) + 1) : i \notin LiveLists(h)
    IN [h EXCEPT !.self_fc = new,
                 !.lists = [i \in LiveLists(h) \cup {new} |->
                               IF i = new THEN <<>> ELSE h.lists[i]]]

\* lines 119-124 and 150-155: the records are appended to the list that
\* self.files_content names, and the ScanResult returned names that list
ReturnResult(h, node, fc) ==
    LET h1 == [h EXCEPT !.lists[h.self_fc] = @ \o fc]
    IN IF h.kept # <<>> THEN h1
       ELSE [h1 EXCEPT !.kept = <<[structure |-> node, files_content |-> h.self_fc,
                                   at_return |-> h1.lists[h.self_fc]]>>]

\* FileProcessor.scan_directory on the (existing) root
ScanDirectory ==
    /\ \E r \in {Scan(fs, config)} :
          /\ files_content' = r.fc
          /\ structure_items_count' = r.sic
          /\ content_files_by_depth' = r.cfd
          /\ result' = <<[structure |-> r.node, files_content |-> r.fc]>>
          /\ heap' = ReturnResult(ResetFilesContent(heap), r.node, r.fc)
    /\ phase' = "ready"
    /\ scan_status' = "returned"
    /\ prev_result' = result
    /\ UNCHANGED <<fs, config, xml_arg, xml_out, tag_call, manager,
                   main_run,
                   dicts,
                   procs>>

\* the environment removes a file of the tree after a scan
Unlink(e) ==
    /\ phase = "ready"
    /\ e \in fs
    /\ e.kind = "file"
    /\ fs' = fs \ {e}
    /\ UNCHANGED <<phase, config, structure_items_count, content_files_by_depth,
                   files_content, result, xml_arg, xml_out, tag_call,
                   scan_status, prev_result, manager,
                   main_run, heap,
                   dicts,
                   procs>>

\* mutant: the state is reset before the existence of the root is tested
MissingRootState_m(sic, cfd, fc) == [sic |-> EmptyDict, cfd |-> EmptyDict, fc |-> <<>>]

\* the processor's state when scan_directory raises FileNotFoundError: the
\* raise of line 142 comes before the reset of lines 145-147
MissingRootState(sic, cfd, fc) == [sic |-> sic, cfd |-> cfd, fc |-> fc]

\* FileProcessor.scan_directory on a root path that does not exist
ScanMissingRoot ==
    /\ LET st == MissingRootState(structure_items_count, content_files_by_depth,
                                  files_content)
       IN /\ structure_items_count' = st.sic
          /\ content_files_by_depth' = st.cfd
          /\ files_content' = st.fc
    /\ scan_status' = "FileNotFoundError"
    /\ UNCHANGED <<fs, phase, config, result, xml_arg, xml_out, tag_call, prev_result, manager,
                   main_run,
                   heap,
                   dicts,
                   procs>>

\* XMLGenerator.generate_xml called with the ScanResult of the last scan, as
\* main.py and the tests call it
GenerateXmlOfScanResult ==
    /\ result # <<>>
    /\ xml_arg' = "ScanResult"
    /\ xml_out' = GenerateXmlOutcome(fs, config, RootName, "ScanResult", <<>>)
    /\ UNCHANGED <<fs, phase, config, structure_items_count, content_files_by_depth,
                   files_content, result, tag_call, scan_status, prev_result, manager,
                   main_run,
                   heap,
                   dicts,
                   procs>>

\* XMLGenerator.generate_xml called with the record list of the last scan, as
\* its signature (files: List[Dict[str, str]]) asks
GenerateXmlOfList ==
    /\ result # <<>>
    /\ xml_arg' = "list"
    /\ xml_out' = GenerateXmlOutcome(fs, config, RootName, "list", result[1].files_content)
    /\ UNCHANGED <<fs, phase, config, structure_items_count, content_files_by_depth,
                   files_content, result, tag_call, scan_status, prev_result, manager,
                   main_run,
                   heap,
                   dicts,
                   procs>>

\* the scanner alone, under every configuration
Next ==
    \/ \E parent \in DirPaths, name \in DirNames : Mkdir(parent, name)
    \/ \E parent \in DirPaths, name \in FileNames : CreateFile(parent, name)
    \/ ScanDirectory

Spec == Init /\ [][Next]_vars

\* scanner and generator, with both depth limits at their largest
InitXml ==
    /\ Init
    /\ config.structure_exclude.max_depth = MaxDepthCfg
    /\ config.content_exclude.max_depth = MaxDepthCfg

NextXml ==
    \/ \E parent \in DirPaths, name \in DirNames : Mkdir(parent, name)
    \/ \E parent \in DirPaths, name \in FileNames : CreateFile(parent, name)
    \/ ScanDirectory
    \/ GenerateXmlOfScanResult
    \/ GenerateXmlOfList

SpecXml == InitXml /\ [][NextXml]_vars

\* the scanner called again and again, also on a root that does not exist
NextRepeat ==
    \/ \E parent \in DirPaths, name \in DirNames : Mkdir(parent, name)
    \/ \E parent \in DirPaths, name \in FileNames : CreateFile(parent, name)
    \/ ScanDirectory
    \/ ScanMissingRoot

SpecRepeat == InitXml /\ [][NextRepeat]_vars

\* the scanner on trees that also hold symbolic links to missing targets
NextLinks ==
    \/ \E parent \in DirPaths, name \in DirNames : Mkdir(parent, name)
    \/ \E parent \in DirPaths, name \in FileNames : CreateFile(parent, name)
    \/ \E parent \in {<<>>, << <<100>> >>}, name \in LinkNames : Symlink(parent, name)
    \/ ScanDirectory

SpecLinks == InitXml /\ [][NextLinks]_vars

\* one processor scanning a tree again and again while files are removed
NextAlias ==
    \/ \E parent \in DirPaths, name \in DirNames : Mkdir(parent, name)
    \/ \E parent \in DirPaths, name \in FileNames : CreateFile(parent, name)
    \/ ScanDirectory
    \/ \E e \in fs : Unlink(e)

SpecAlias == InitXml /\ [][NextAlias]_vars

\* the scanner on trees with one more text file, the structure cap above the
\* content cap
NextCaps ==
    \/ \E parent \in DirPaths, name \in DirNames : Mkdir(parent, name)
    \/ \E parent \in DirPaths, name \in FileNames \cup MoreFileNames : CreateFile(parent, name)
    \/ ScanDirectory

SpecCaps == InitCaps /\ [][NextCaps]_vars

(***************************************************************************)
(* Two FileProcessor instances whose scans run step by step.  A step is    *)
(* one pass of the loop of _process_directory (lines 92-127) or the return *)
(* of one call.  procs.p[i] is instance i: the tree under its root, its    *)
(* call stack (one frame per running call: directory, remaining items,     *)
(* children appended so far), its record list; procs.store[k] is a pair of *)
(* counter dicts.                                                          *)
(***************************************************************************)
\* the trees scanned: p/{d/{a.t}, a.t, c.s}, p/{E/{a.t}, a.t}, p/{a.t, d.c, f.t}
ScanRoots ==
    { { [path |-> << <<100>> >>, kind |-> "dir"],
        [path |-> << <<100>>, <<97, 46, 116>> >>, kind |-> "file"],
        [path |-> << <<97, 46, 116>> >>, kind |-> "file"],
        [path |-> << <<99, 46, 115>> >>, kind |-> "file"] },
      { [path |-> << <<69>> >>, kind |-> "dir"],
        [path |-> << <<69>>, <<97, 46, 116>> >>, kind |-> "file"],
        [path |-> << <<97, 46, 116>> >>, kind |-> "file"] },
      { [path |-> << <<97, 46, 116>> >>, kind |-> "file"],
        [path |-> << <<100, 46, 99>> >>, kind |-> "file"],
        [path |-> << <<102, 46, 116>> >>, kind |-> "file"] } }

\* mutant: the counter dicts are attributes of the class, one pair for all
CounterStore_m(i) == 1

\* lines 34-35: the counter dicts are attributes of the instance
CounterStore(i) == i

\* the entry of a call of _process_directory (lines 77-91) by instance i:
\* the stack and the structure counters after it
EnterDirectory(cfg, fsys, stack, sic, p, name, current_depth, current_rel_path) ==
    IF DepthExceeded(cfg, current_depth) THEN [stack |-> stack, sic |-> sic]
    ELSE LET rel == IF current_rel_path # <<>> THEN JoinPath(current_rel_path, name)
                    ELSE name
         IN [stack |-> <<[p |-> p, name |-> name, depth |-> current_depth, rel |-> rel,
                          items |-> SortedItems(IterDir(fsys, p)),
                          children |-> <<>>]>> \o stack,
             sic |-> IF current_depth \in DOMAIN sic THEN sic
                     ELSE (current_depth :> 0) @@ sic]

\* scan_directory of instance i up to the first pass of the loop: lines
\* 140-149 and the entry of the call on the root
StartScan(i, root) ==
    /\ procs.p[i].pc = "idle"
    /\ \A j \in 1..2 : procs.p[j].pc # "idle" => procs.p[j].root # root
    /\ LET k == CounterStore(i)
           e == EnterDirectory(config, root, <<>>, EmptyDict, <<>>, RootName, 0, <<>>)
       IN procs' = [procs EXCEPT !.p[i] = [pc |-> "scanning", root |-> root,
                                           stack |-> e.stack, fc |-> <<>>,
                                           result |-> <<>>, mixed |-> FALSE],
                                 !.store[k] = [sic |-> e.sic, cfd |-> EmptyDict]]
    /\ UNCHANGED <<fs, phase, config, structure_items_count, content_files_by_depth,
                   files_content, result, xml_arg, xml_out, tag_call, scan_status,
                   prev_result, manager, main_run, heap, dicts>>

\* the return of the call on top of the stack (line 132), and what the
\* caller does with the node: lines 98-100, or lines 150-155 for the root.
\* A counter dict without the key of the depth raises KeyError, which the
\* handler of line 129 catches: the loop of the caller ends
ReturnStep(pr, st) ==
    LET top == Head(pr.stack)
        node == DirectoryStructure(top.name, top.rel, TRUE, top.children, top.depth)
        below == Tail(pr.stack)
    IN IF below = <<>>
       THEN [pr |-> [pr EXCEPT !.stack = <<>>, !.pc = "returned",
                               !.result = <<[structure |-> <<node>>,
                                             files_content |-> pr.fc]>>],
             st |-> st]
       ELSE IF Head(below).depth \notin DOMAIN st.sic
       THEN [pr |-> [pr EXCEPT !.stack = <<[Head(below) EXCEPT
                                              !.children = Append(@, node),
                                              !.items = <<>>]>>
                                          \o Tail(below)],
             st |-> st]
       ELSE [pr |-> [pr EXCEPT !.stack = <<[Head(below) EXCEPT
                                              !.children = Append(@, node)]>>
                                          \o Tail(below)],
             st |-> [st EXCEPT !.sic[Head(below).depth] = @ + 1]]

\* one pass of the loop of lines 92-127 over the next item of the top call
ItemStep(cfg, pr, st) ==
    LET top == Head(pr.stack)
        item == Head(top.items)
        name == EntryName(item)
        rest == <<[top EXCEPT !.items = Tail(@)]>> \o Tail(pr.stack)
    IN IF item.kind = "dir"
       THEN IF DirIncluded(cfg, name)
            THEN LET e == EnterDirectory(cfg, pr.root, rest, st.sic, Append(top.p, name),
                                         name, top.depth + 1, top.rel)
                 IN [pr |-> [pr EXCEPT !.stack = e.stack], st |-> [st EXCEPT !.sic = e.sic]]
            ELSE [pr |-> [pr EXCEPT !.stack = rest], st |-> st]
       ELSE IF PassesStructureFilters(cfg, name) /\ top.depth \notin DOMAIN st.sic
       THEN [pr |-> [pr EXCEPT !.stack = <<[top EXCEPT !.items = <<>>]>> \o Tail(pr.stack)],
             st |-> st]                                   \* KeyError at line 105
       ELSE LET w == ProcessFile(cfg, [children |-> top.children, sic |-> st.sic,
                                       cfd |-> st.cfd, fc |-> pr.fc, raised |-> FALSE],
                                 name, top.depth, top.rel)
            IN [pr |-> [pr EXCEPT !.stack = <<[top EXCEPT
                                                 !.items = IF w.raised THEN <<>> ELSE Tail(@),
                                                 !.children = w.children]>>
                                             \o Tail(pr.stack),
                                  !.fc = w.fc],
                st |-> [sic |-> w.sic, cfd |-> w.cfd]]

\* one step of the scan of instance i
StepScan(i) ==
    /\ procs.p[i].pc = "scanning"
    /\ LET k == CounterStore(i)
           pr == [procs.p[i] EXCEPT !.mixed = @ \/ procs.p[3 - i].pc = "scanning"]
           r == IF Head(pr.stack).items = <<>> THEN ReturnStep(pr, procs.store[k])
                ELSE ItemStep(config, pr, procs.store[k])
       IN procs' = [procs EXCEPT !.p[i] = r.pr, !.store[k] = r.st]
    /\ UNCHANGED <<fs, phase, config, structure_items_count, content_files_by_depth,
                   files_content, result, xml_arg, xml_out, tag_call, scan_status,
                   prev_result, manager, main_run, heap, dicts>>

\* two processors, each scanning one root, their steps in any order
NextPair ==
    \/ \E i \in 1..2, root \in ScanRoots : StartScan(i, root)
    \/ \E i \in 1..2 : StepScan(i)

SpecPair == InitXml /\ [][NextPair]_vars

(***************************************************************************)
(* main (main.py).  A run is [calls, raised, exit_code, saved]: the stages *)
(* called in order, the stage whose exception reached the handlers of      *)
(* lines 93-101 ("none" if none), the exit code of the process, and        *)
(* whether the document was written.                                       *)
(***************************************************************************)
Stages == <<"validate_path", "scan_directory", "generate_xml", "save_output">>

\* mutant: the exception of a stage is logged and the run goes on
MainRun_m(path_kind, gen_status, save_ok) ==
    [calls |-> IF path_kind # "dir" THEN SubSeq(Stages, 1, 1) ELSE Stages,
     raised |-> IF path_kind # "dir" THEN "validate_path"
                ELSE IF gen_status # "returned" THEN "generate_xml"
                ELSE IF ~save_ok THEN "save_output" ELSE "none",
     exit_code |-> IF path_kind # "dir" \/ ~save_ok THEN 1 ELSE 0,
     saved |-> path_kind = "dir" /\ save_ok]

\* main, lines 72-101: path_kind is what the path argument names ("dir",
\* "file", "missing"), gen_status how generate_xml ends on the ScanResult,
\* save_ok whether the output file can be written
MainRun(path_kind, gen_status, save_ok) ==
    IF path_kind # "dir"                       \* validate_path raises ValueError
    THEN [calls |-> SubSeq(Stages, 1, 1), raised |-> "validate_path",
          exit_code |-> 1, saved |-> FALSE]
    ELSE IF gen_status # "returned"             \* generate_xml raises
    THEN [calls |-> SubSeq(Stages, 1, 3), raised |-> "generate_xml",
          exit_code |-> 1, saved |-> FALSE]
    ELSE IF ~save_ok                            \* open() of save_output raises
    THEN [calls |-> Stages, raised |-> "save_output", exit_code |-> 1, saved |-> FALSE]
    ELSE [calls |-> Stages, raised |-> "none", exit_code |-> 0, saved |-> TRUE]

\* one run of main on a path: a new FileProcessor and a new XMLGenerator,
\* the scan of the tree, generate_xml on the ScanResult, save_output
Main(path_kind, save_ok) ==
    /\ LET r == Scan(fs, config)
           files == [structure |-> r.node, files_content |-> r.fc]
           out == GenerateXmlOutcome(fs, config, RootName, "ScanResult", files)
       IN main_run' = MainRun(path_kind, out.status, save_ok)
    /\ UNCHANGED <<fs, phase, config, structure_items_count, content_files_by_depth,
                   files_content, result, xml_arg, xml_out, tag_call, scan_status,
                   prev_result, manager,
                   heap,
                   dicts,
                   procs>>

\* the command line program, run on trees laid out before
NextMain ==
    \/ \E parent \in DirPaths, name \in DirNames : Mkdir(parent, name)
    \/ \E parent \in DirPaths, name \in FileNames : CreateFile(parent, name)
    \/ \E path_kind \in {"dir", "file", "missing"}, save_ok \in BOOLEAN :
           Main(path_kind, save_ok)

SpecMain == InitXml /\ [][NextMain]_vars

\* the class [a-zA-Z0-9\-_] kept by sanitize_project_name
IsProjectNameChar(c) == IsAlpha(c) \/ IsDigit(c) \/ c = UNDERSCORE \/ c = 45

\* the literal 'project_'
ProjectPrefix == <<112, 114, 111, 106, 101, 99, 116, 95>>

\* sanitize_project_name, main.py lines 18-27
SanitizeProjectName(project_name) ==
    LET sanitized == [i \in 1..Len(project_name) |->
                         IF IsProjectNameChar(project_name[i]) THEN project_name[i]
                         ELSE UNDERSCORE]
    IN IF sanitized = <<>> \/ ~IsAlpha(sanitized[1])
       THEN ProjectPrefix \o sanitized
       ELSE sanitized

(***************************************************************************)
(* ConfigManager (config_manager.py).  A JSON value is a record with one   *)
(* field named after its type: [int |-> 3], [bool |-> TRUE], [str |-> s],  *)
(* [list |-> S], [obj |-> f] with f a function from the keys present.      *)
(***************************************************************************)
JInt(n) == [int |-> n]
JBool(b) == [bool |-> b]
JStr(str) == [str |-> str]
JList(S) == [list |-> S]
JObj(f) == [obj |-> f]

\* isinstance(v, int): bool is a subclass of int
IsIntInstance(v) == DOMAIN v \subseteq {"int", "bool"}

\* whether v has the method get
IsDict(v) == DOMAIN v = {"obj"}

\* d.get(key, default) on a JSON object
DictGet(d, key, default) == IF key \in DOMAIN d.obj THEN d.obj[key] ELSE default

\* ConfigurationSchema(): the defaults
ConfigurationSchema ==
    [max_file_size_kb |-> JInt(1024),
     exclude |-> [extensions |-> JList({}), files |-> JList({}),
                  max_depth |-> JInt(10), max_files |-> JInt(100)],
     exclude_structure |-> [extensions |-> JList({}), directories |-> JList({}),
                            files |-> JList({}), max_depth |-> JInt(10),
                            max_files |-> JInt(100)]]

\* the configuration of the three except branches of _load_config
DefaultConfig ==
    [max_file_size_kb |-> ConfigurationSchema.max_file_size_kb,
     content_exclude |-> ConfigurationSchema.exclude,
     structure_exclude |-> ConfigurationSchema.exclude_structure]

\* the merge of lines 64-79: the content rules are read under the key
\* 'content_exclude', the structure rules under the key 'exclude_structure'
ValidatedConfig(user_config) ==
    LET schema == ConfigurationSchema
        ce == DictGet(user_config, "content_exclude", JObj(EmptyDict))
        se == DictGet(user_config, "exclude_structure", JObj(EmptyDict))
    IN [max_file_size_kb |-> DictGet(user_config, "max_file_size_kb", schema.max_file_size_kb),
        content_exclude |->
            [k \in DOMAIN schema.exclude |-> DictGet(ce, k, schema.exclude[k])],
        structure_exclude |->
            [k \in DOMAIN schema.exclude_structure |->
                DictGet(se, k, schema.exclude_structure[k])]]

\* whether the merge raises AttributeError: a value without the method get
MergeRaises(user_config) ==
    \/ ~IsDict(user_config)
    \/ ~IsDict(DictGet(user_config, "content_exclude", JObj(EmptyDict)))
    \/ ~IsDict(DictGet(user_config, "exclude_structure", JObj(EmptyDict)))

\* the type checks of lines 82-95
ValidationRaises(c) ==
    \/ ~IsIntInstance(c.max_file_size_kb)
    \/ ~IsIntInstance(c.content_exclude.max_depth)
    \/ ~IsIntInstance(c.content_exclude.max_files)
    \/ ~IsIntInstance(c.structure_exclude.max_depth)
    \/ ~IsIntInstance(c.structure_exclude.max_files)

\* ConfigManager._load_config: the value _config is given
LoadConfig(file) ==
    IF file.kind = "missing" THEN DefaultConfig              \* FileNotFoundError
    ELSE IF file.kind = "invalid_json" THEN DefaultConfig    \* json.JSONDecodeError
    ELSE IF MergeRaises(file.value) THEN DefaultConfig       \* AttributeError
    ELSE IF ValidationRaises(ValidatedConfig(file.value)) THEN DefaultConfig  \* ValueError
    ELSE ValidatedConfig(file.value)

\* ConfigManager.get_content_exclude / get_structure_exclude
GetContentExclude == manager.config[1].content_exclude

GetStructureExclude == manager.config[1].structure_exclude

\* a key the file does not hold
Absent == [absent |-> TRUE]

\* the JSON object with the keys of f whose value is not Absent
ObjOf(f) == JObj([k \in {x \in DOMAIN f : f[x] # Absent} |-> f[k]])

\* the configuration files of the universe
SizeValues == {Absent, JInt(500), JStr(<<120>>)}

ContentValues ==
    { Absent, JStr(<<120>>),
      ObjOf([max_depth |-> JInt(3), extensions |-> JList({<<46, 101>>})]),
      ObjOf([max_depth |-> JStr(<<120>>)]),
      ObjOf([max_files |-> JInt(7)]),
      ObjOf([max_files |-> JBool(TRUE)]) }

StructureValues ==
    { Absent,
      ObjOf([max_depth |-> JInt(4), directories |-> JList({<<46, 103>>})]),
      ObjOf([max_depth |-> JStr(<<120>>), directories |-> JList({<<46, 103>>})]) }

ConfigFiles ==
    {[kind |-> "missing"], [kind |-> "invalid_json"], [kind |-> "json", value |-> JList({})]}
    \cup {[kind |-> "json",
           value |-> ObjOf([max_file_size_kb |-> m, content_exclude |-> c,
                            structure_exclude |-> s1, exclude_structure |-> s2])] :
             m \in SizeValues, c \in ContentValues,
             s1 \in StructureValues, s2 \in {Absent, ObjOf([max_depth |-> JInt(5)])}}

(***************************************************************************)
(* Dict objects.  d.objs maps the identity of a rule dict (the value of     *)
(* 'content_exclude' or 'structure_exclude') to its items; d.manager is    *)
(* <<>> or holds the dict ConfigManager._config names, whose two rule      *)
(* items are identities; d.built lists the FileProcessor and XMLGenerator  *)
(* objects constructed: the dict self.config names and the file the        *)
(* manager had loaded then.  Dicts that nothing names any more are dropped.*)
(***************************************************************************)
LiveDicts(d) ==
    UNION {{d.built[i].config.content_exclude, d.built[i].config.structure_exclude} :
              i \in 1..Len(d.built)}

\* the settings a dict of the configuration holds, its rule dicts read
Settings(d, top) ==
    [max_file_size_kb |-> top.max_file_size_kb,
     content_exclude |-> d.objs[top.content_exclude],
     structure_exclude |-> d.objs[top.structure_exclude]]

\* mutant: the rule dicts the manager holds are updated in place
StoreConfig_m(d, cfg) ==
    IF d.manager = <<>>
    THEN [d EXCEPT !.objs = (1 :> cfg.content_exclude) @@ (2 :> cfg.structure_exclude),
                   !.manager = <<[max_file_size_kb |-> cfg.max_file_size_kb,
                                  content_exclude |-> 1, structure_exclude |-> 2]>>]
    ELSE [d EXCEPT !.objs[d.manager[1].content_exclude] = cfg.content_exclude,
                   !.objs[d.manager[1].structure_exclude] = cfg.structure_exclude,
                   !.manager[1].max_file_size_kb = cfg.max_file_size_kb]

\* lines 97 and 103-123, self._config = {...}: the attribute names a new
\* dict, whose rule dicts are new too
StoreConfig(d, cfg) ==
    LET free == (1..(Cardinality(LiveDicts(d)) + 2)) \ LiveDicts(d)
        ce == CHOOSE i \in free : \A j \in free : i <= j
        se == CHOOSE i \in free \ {ce} : \A j \in free \ {ce} : i <= j
    IN [d EXCEPT !.objs = [i \in LiveDicts(d) \cup {ce, se} |->
                              IF i = ce THEN cfg.content_exclude
                              ELSE IF i = se THEN cfg.structure_exclude
                              ELSE d.objs[i]],
                 !.manager = <<[max_file_size_kb |-> cfg.max_file_size_kb,
                                content_exclude |-> ce, structure_exclude |-> se]>>]

\* ConfigManager.get_config: self._config.copy(), a new dict with the same
\* items, so with the same rule dicts
GetConfig(d) == d.manager[1]

\* ConfigManager._load_config(path) / reload_config(path) on the file at path
LoadConfigFile(file) ==
    /\ manager' = [file |-> file, config |-> <<LoadConfig(file)>>]
    /\ dicts' = StoreConfig(dicts, LoadConfig(file))
    /\ UNCHANGED <<fs, phase, config, structure_items_count, content_files_by_depth,
                   files_content, result, xml_arg, xml_out, tag_call, scan_status,
                   prev_result,
                   main_run,
                   heap,
                   procs>>

\* the configuration manager alone, loading one file after another
NextConfig == \E file \in ConfigFiles : LoadConfigFile(file)

SpecConfig == Init /\ [][NextConfig]_vars

\* at most MaxObjects processors and generators are constructed
MaxObjects == 2

\* FileProcessor.__init__ / XMLGenerator.__init__ once the manager has loaded
\* a file: self.config = ConfigManager().get_config()
Construct ==
    /\ dicts.manager # <<>>
    /\ Len(dicts.built) < MaxObjects
    /\ dicts' = [dicts EXCEPT !.built = Append(@, [config |-> GetConfig(dicts),
                                                   file |-> manager.file])]
    /\ UNCHANGED <<fs, phase, config, structure_items_count, content_files_by_depth,
                   files_content, result, xml_arg, xml_out, tag_call, scan_status,
                   prev_result, manager, main_run, heap,
                   procs>>

\* the configuration files reloaded while objects are constructed
ReloadFiles ==
    {[kind |-> "missing"]}
    \cup {[kind |-> "json",
           value |-> ObjOf([max_file_size_kb |-> JInt(500), content_exclude |-> c,
                            exclude_structure |-> s])] :
             c \in {ObjOf([max_files |-> JInt(7)]),
                    ObjOf([max_depth |-> JInt(3), extensions |-> JList({<<46, 101>>})])},
             s \in {Absent, ObjOf([max_depth |-> JInt(5)])}}

NextReload ==
    \/ \E file \in ReloadFiles : LoadConfigFile(file)
    \/ Construct

SpecReload == Init /\ [][NextReload]_vars

\* the characters of the strings handed to the tag-name functions:
\* 'a' '1' '_' '-' '.' '/' ' '
TagAlphabet == {97, 49, 95, 45, 46, 47, 32}

TagInputs == UNION {[1..n -> TagAlphabet] : n \in 0..MaxTagLen}

\* XMLGenerator._sanitize_tag_name(name), called on a new generator
SanitizeTagNameCall(name) ==
    /\ tag_call.fn = "none"
    /\ tag_call' = [fn |-> "_sanitize_tag_name", input |-> name, out |-> SanitizeTagName(name)]
    /\ UNCHANGED <<fs, phase, config, structure_items_count, content_files_by_depth,
                   files_content, result, xml_arg, xml_out, scan_status, prev_result, manager,
                   main_run,
                   heap,
                   dicts,
                   procs>>

\* XMLGenerator._create_tag_name(path), called on a new generator
CreateTagNameCall(path) ==
    /\ tag_call.fn = "none"
    /\ tag_call' = [fn |-> "_create_tag_name", input |-> path, out |-> CreateTagName(path)]
    /\ UNCHANGED <<fs, phase, config, structure_items_count, content_files_by_depth,
                   files_content, result, xml_arg, xml_out, scan_status, prev_result, manager,
                   main_run,
                   heap,
                   dicts,
                   procs>>

\* the tag-name functions alone, on every string of the alphabet
NextTag ==
    \/ tag_call.fn = "none" /\ \E name \in TagInputs : SanitizeTagNameCall(name)
    \/ tag_call.fn = "none" /\ \E path \in TagInputs : CreateTagNameCall(path)

SpecTag == InitXml /\ [][NextTag]_vars

\* sanitize_project_name(project_name), as save_output calls it
SanitizeProjectNameCall(project_name) ==
    /\ tag_call.fn = "none"
    /\ tag_call' = [fn |-> "sanitize_project_name", input |-> project_name,
                    out |-> SanitizeProjectName(project_name)]
    /\ UNCHANGED <<fs, phase, config, structure_items_count, content_files_by_depth,
                   files_content, result, xml_arg, xml_out, scan_status, prev_result, manager,
                   main_run,
                   heap,
                   dicts,
                   procs>>

NextName ==
    tag_call.fn = "none" /\ \E project_name \in TagInputs : SanitizeProjectNameCall(project_name)

SpecName == InitXml /\ [][NextName]_vars

\* contents of at most MaxContentLen characters out of ']' '>' 'a' and the
\* carriage return
MaxContentLen == 6

ContentAlphabet == {93, 62, 97, 13}

ContentInputs == UNION {[1..n -> ContentAlphabet] : n \in 0..MaxContentLen}

\* XMLGenerator._wrap_content(content), called on a new generator
WrapContentCall(content) ==
    /\ tag_call.fn = "none"
    /\ tag_call' = [fn |-> "_wrap_content", input |-> content, out |-> WrapContent(content)]
    /\ UNCHANGED <<fs, phase, config, structure_items_count, content_files_by_depth,
                   files_content, result, xml_arg, xml_out, scan_status, prev_result, manager,
                   main_run,
                   heap,
                   dicts,
                   procs>>

NextWrap ==
    tag_call.fn = "none" /\ \E content \in ContentInputs : WrapContentCall(content)

SpecWrap == InitXml /\ [][NextWrap]_vars

(***************************************************************************)
(* Vocabulary of the properties: the scanned tree against the filesystem.  *)
(***************************************************************************)
Scanned == result # <<>>

RootNode == result[1].structure[1]

Records == result[1].files_content

\* every node of a structure tree, the root included
RECURSIVE NodesOf(_)
NodesOf(n) == {n} \cup UNION {NodesOf(n.children[i]) : i \in 1..Len(n.children)}

\* the slash-joined path of an entry, from the name of the scan root
RECURSIVE RelStr(_)
RelStr(p) ==
    IF p = <<>> THEN RootName
    ELSE RelStr(SubSeq(p, 1, Len(p) - 1)) \o <<SLASH>> \o p[Len(p)]

FileEntries == {e \in fs : e.kind = "file"}

DirEntries == {e \in fs : e.kind = "dir"}

HasNode(e) ==
    \E n \in NodesOf(RootNode) : n.path = RelStr(e.path) /\ n.is_dir = (e.kind = "dir")

HasRecord(e) == \E i \in 1..Len(Records) : Records[i].path = RelStr(e.path)

\* the directory at path p was walked: it is the root or has a node
Walked(p) == p = <<>> \/ HasNode([path |-> p, kind |-> "dir"])

\* the depth of the directory a file lies in (0 for the scan root)
DirDepth(e) == Len(e.path) - 1

StructureExcluded(name) ==
    \/ Suffix(name) \in config.structure_exclude.extensions
    \/ name \in config.structure_exclude.files

ContentExcluded(name) ==
    \/ Suffix(name) \in config.content_exclude.extensions
    \/ name \in config.content_exclude.files

\* a file whose text can be extracted: readable, UTF-8, within the size limit
IsTextFile(name) ==
    /\ CanOpen(name)
    /\ DecodesUtf8(name)
    /\ FileSize(name) <= config.max_file_size_kb * 1024

\* neither counter of depth d ever reached its cap during the scan
CapsNeverReached(d) ==
    /\ d \in DOMAIN structure_items_count
    /\ structure_items_count[d] < config.structure_exclude.max_files
    /\ d \in DOMAIN content_files_by_depth =>
           content_files_by_depth[d] < config.content_exclude.max_files

Min(a, b) == IF a < b THEN a ELSE b

\* the node of the walked directory at path p
DirNode(p) == CHOOSE n \in NodesOf(RootNode) : n.path = RelStr(p) /\ n.is_dir

FileNodesIn(p) == {i \in 1..Len(DirNode(p).children) : ~DirNode(p).children[i].is_dir}

RecordsIn(p) ==
    {i \in 1..Len(Records) :
        \E e \in IterDir(fs, p) : e.kind = "file" /\ Records[i].path = RelStr(e.path)}

(***************************************************************************)
(* C1. Decoupling of the two rule sets: for every text file within the     *)
(* content depth in a walked directory whose depth never reached a cap,    *)
(* the file has a structure node exactly if the structure rules do not     *)
(* exclude it, and a content record exactly if the content rules do not    *)
(* exclude it (so: only structure-excluded -> record and no node; only     *)
(* content-excluded -> node and no record; both -> neither; neither ->     *)
(* both).                                                                  *)
(***************************************************************************)
C1_Decoupling ==
    Scanned =>
        \A e \in FileEntries :
            ( /\ Walked(ParentPath(e))
              /\ CapsNeverReached(DirDepth(e))
              /\ IsTextFile(EntryName(e))
              /\ DirDepth(e) <= config.content_exclude.max_depth )
            => /\ HasNode(e) <=> ~StructureExcluded(EntryName(e))
               /\ HasRecord(e) <=> ~ContentExcluded(EntryName(e))

(***************************************************************************)
(* C2. The counters are scoped to one directory: a walked directory with   *)
(* no subdirectories, all of whose files can be read, holds exactly        *)
(* min(n, structure max_files) file nodes for its n structure-eligible     *)
(* files and, within the content depth, exactly min(m, content max_files)  *)
(* content records for its m content-eligible files, whatever the other    *)
(* directories contain.                                                    *)
(***************************************************************************)
C2_PerDirectoryCounters ==
    Scanned =>
        \A p \in {<<>>} \cup {d.path : d \in DirEntries} :
            LET files == {e \in IterDir(fs, p) : e.kind = "file"}
                ns == Cardinality({e \in files : ~StructureExcluded(EntryName(e))})
                nc == Cardinality({e \in files : /\ ~ContentExcluded(EntryName(e))
                                                   /\ IsTextFile(EntryName(e))})
            IN ( /\ Walked(p)
                 /\ \A e \in IterDir(fs, p) : e.kind = "file" /\ CanOpen(EntryName(e)) )
               => /\ Cardinality(FileNodesIn(p))
                         = Min(ns, config.structure_exclude.max_files)
                  /\ Len(p) <= config.content_exclude.max_depth
                         => Cardinality(RecordsIn(p))
                                = Min(nc, config.content_exclude.max_files)

(***************************************************************************)
(* C3. No directory node has more than structure max_files children,       *)
(* subdirectories and files counted together.                              *)
(***************************************************************************)
C3_ChildrenWithinCap ==
    Scanned =>
        \A n \in NodesOf(RootNode) :
            Len(n.children) <= config.structure_exclude.max_files

(***************************************************************************)
(* C4. Every directory contributes at most content max_files content       *)
(* records, and the records do not depend on the structure counter: the    *)
(* same scan with a structure cap of 0, which is reached from the start    *)
(* in every directory, extracts the same records.                          *)
(***************************************************************************)
C4_ContentCapIndependent ==
    Scanned =>
        /\ \A p \in {<<>>} \cup {d.path : d \in DirEntries} :
               Cardinality(RecordsIn(p)) <= config.content_exclude.max_files
        /\ Scan(fs, [config EXCEPT !.structure_exclude.max_files = 0]).fc = Records

\* a file got its record although the structure cap kept its node out, and a
\* later content-eligible file of the same directory was cut by the content cap
C4_Witness ==
    /\ Scanned
    /\ \E e, f \in FileEntries :
          /\ ParentPath(e) = ParentPath(f)
          /\ ~StructureExcluded(EntryName(e)) /\ ~HasNode(e) /\ HasRecord(e)
          /\ IsTextFile(EntryName(f)) /\ ~ContentExcluded(EntryName(f))
          /\ DirDepth(f) <= config.content_exclude.max_depth
          /\ ~HasRecord(f)

(***************************************************************************)
(* C5. No node of the structure tree has a depth above structure           *)
(* max_depth, no chain of nested directory nodes below the root is longer  *)
(* than max_depth, and a directory lying deeper than the limit has no      *)
(* node and nothing beneath it has one.                                    *)
(***************************************************************************)
RECURSIVE DirChain(_)
DirChain(n) ==
    LET subs == {i \in 1..Len(n.children) : n.children[i].is_dir}
    IN IF subs = {} THEN 0
       ELSE LET i == CHOOSE i \in subs :
                         \A j \in subs : DirChain(n.children[j]) <= DirChain(n.children[i])
            IN 1 + DirChain(n.children[i])

\* the directories an entry lies in, itself included when it is a directory
DirsOf(e) == IF e.kind = "dir" THEN e.path ELSE ParentPath(e)

C5_StructureDepthLimit ==
    Scanned =>
        /\ \A n \in NodesOf(RootNode) : n.depth <= config.structure_exclude.max_depth
        /\ DirChain(RootNode) <= config.structure_exclude.max_depth
        /\ \A e \in fs : Len(DirsOf(e)) > config.structure_exclude.max_depth => ~HasNode(e)

\* a directory just below the limit, in a walked directory, holding a file
C5_Witness ==
    /\ Scanned
    /\ \E e \in FileEntries :
          /\ DirDepth(e) = config.structure_exclude.max_depth + 1
          /\ \A k \in 1..Len(ParentPath(e)) :
                 ParentPath(e)[k] \notin config.structure_exclude.directories
          /\ ~StructureExcluded(EntryName(e))
          /\ ~HasNode(e)

(***************************************************************************)
(* C6. Every content record has depth <= content max_depth, its depth is   *)
(* the depth of the directory the file lies in (0 for the scan root), and  *)
(* a file in a directory deeper than the content limit has no record even  *)
(* when it has a structure node.                                           *)
(***************************************************************************)
C6_ContentDepthLimit ==
    Scanned =>
        /\ \A i \in 1..Len(Records) :
               /\ Records[i].depth <= config.content_exclude.max_depth
               /\ \E e \in FileEntries : /\ Records[i].path = RelStr(e.path)
                                         /\ Records[i].depth = DirDepth(e)
        /\ \A e \in FileEntries :
               DirDepth(e) > config.content_exclude.max_depth => ~HasRecord(e)

\* a text file the content rules do not exclude has a node below the content limit
C6_Witness ==
    /\ Scanned
    /\ \E e \in FileEntries :
          /\ DirDepth(e) > config.content_exclude.max_depth
          /\ IsTextFile(EntryName(e)) /\ ~ContentExcluded(EntryName(e))
          /\ HasNode(e)
          /\ ~HasRecord(e)
    /\ \E i \in 1..Len(Records) : Records[i].depth = 0

(***************************************************************************)
(* C7. Traversal is governed by the structure rules: an entry that is, or  *)
(* lies beneath, a directory whose name is excluded from the structure or  *)
(* which lies deeper than structure max_depth has no structure node and no *)
(* content record, whatever the content rules say.                         *)
(***************************************************************************)
CutFromWalk(e) ==
    \E k \in 1..Len(DirsOf(e)) :
        \/ DirsOf(e)[k] \in config.structure_exclude.directories
        \/ k > config.structure_exclude.max_depth

C7_TraversalByStructureRules ==
    Scanned => \A e \in fs : CutFromWalk(e) => ~HasNode(e) /\ ~HasRecord(e)

\* a text file passing every content rule, within both depth limits, lies in
\* a directory excluded by name
C7_Witness ==
    /\ Scanned
    /\ \E e \in FileEntries :
          /\ \E k \in 1..Len(ParentPath(e)) :
                 ParentPath(e)[k] \in config.structure_exclude.directories
          /\ DirDepth(e) <= config.structure_exclude.max_depth
          /\ DirDepth(e) <= config.content_exclude.max_depth
          /\ IsTextFile(EntryName(e)) /\ ~ContentExcluded(EntryName(e))
          /\ ~StructureExcluded(EntryName(e))
          /\ ~HasRecord(e) /\ ~HasNode(e)

(***************************************************************************)
(* C8. In the structure tree each node's depth is its parent's depth + 1,  *)
(* for directory and file nodes alike, and every child of the root has     *)
(* depth 0.                                                                *)
(***************************************************************************)
C8_DepthIsParentPlusOne ==
    Scanned =>
        /\ \A n \in NodesOf(RootNode) :
               \A i \in 1..Len(n.children) : n.children[i].depth = n.depth + 1
        /\ \A i \in 1..Len(RootNode.children) : RootNode.children[i].depth = 0

(***************************************************************************)
(* Vocabulary of the generator properties.                                 *)
(***************************************************************************)
Doc == xml_out.doc

IsLiteral(l, text) == l.kind = "literal" /\ l.lit = text

\* the paths of the file nodes of the structure tree
FileNodePaths == {n.path : n \in {m \in NodesOf(RootNode) : ~m.is_dir}}

\* the records no file node of the tree stands for
Orphans == {i \in 1..Len(Records) : Records[i].path \notin FileNodePaths}

\* the line that opens the orphan section of a document, 0 if it has none
OrphanSectionStart(doc) ==
    IF \E i \in 1..Len(doc) : IsLiteral(doc[i], "<orphan_files>")
    THEN CHOOSE i \in 1..Len(doc) : IsLiteral(doc[i], "<orphan_files>")
    ELSE 0

\* the record r is emitted, tag and content, after line `from` of the document
EmittedAfter(doc, r, from) ==
    \E j \in (from + 1)..(Len(doc) - 1) :
        /\ doc[j].kind = "open"
        /\ doc[j].tag = CreateTagName(r.path)
        /\ doc[j + 1].kind = "raw"
        /\ doc[j + 1].text = WrapContent(r.content)

(***************************************************************************)
(* C9. generate_xml called with the ScanResult of a scan returns, without  *)
(* raising, a well-formed document that starts with the XML declaration,   *)
(* then the root element `code`, then a project_context block whose        *)
(* project_name is the name of the root directory.                         *)
(***************************************************************************)
C9_GenerateXmlAcceptsScanResult ==
    xml_arg = "ScanResult" =>
        /\ xml_out.status = "returned"
        /\ WellFormed(Doc)
        /\ Len(Doc) >= 4
        /\ IsLiteral(Doc[1], "<?xml version=\"1.0\" encoding=\"UTF-8\"?>")
        /\ IsLiteral(Doc[2], "<code>")
        /\ IsLiteral(Doc[3], "<project_context>")
        /\ Doc[4].kind = "element"
        /\ Doc[4].tag = "project_name"
        /\ Doc[4].text = RootName
        /\ IsLiteral(Doc[Len(Doc)], "</code>")

(***************************************************************************)
(* C10. Orphan section: in every document generate_xml returns, a content  *)
(* record whose path is not the path of a file node of the structure tree  *)
(* is emitted, tag named by the sanitized full path and content, inside a  *)
(* trailing orphan_files section, and a record whose path is the path of   *)
(* a file node is not emitted there.                                       *)
(***************************************************************************)
C10_OrphanSection ==
    xml_out.status = "returned" =>
        \A i \in 1..Len(Records) :
            LET start == OrphanSectionStart(Doc)
            IN IF i \in Orphans
               THEN start > 0 /\ EmittedAfter(Doc, Records[i], start)
               ELSE start > 0 => ~EmittedAfter(Doc, Records[i], start)

(***************************************************************************)
(* Vocabulary of the document layout.                                      *)
(***************************************************************************)
\* the index of the first line of doc that is the fixed line text, 0 if none
LineOf(doc, text) ==
    IF \E i \in 1..Len(doc) : IsLiteral(doc[i], text)
    THEN CHOOSE i \in 1..Len(doc) :
             IsLiteral(doc[i], text) /\ \A j \in 1..(i - 1) : ~IsLiteral(doc[j], text)
    ELSE 0

\* the lines of the outline: those between <structure> and </structure>
OutlineOf(doc) ==
    SubSeq(doc, LineOf(doc, "<structure>") + 1, LineOf(doc, "</structure>") - 1)

EndsWith(s, t) == Len(t) <= Len(s) /\ SubSeq(s, Len(s) - Len(t) + 1, Len(s)) = t

\* the content of the record with path p, <<>> when no record has that path
ContentAt(p) ==
    IF \E i \in 1..Len(Records) : Records[i].path = p
    THEN << (CHOOSE r \in {Records[i] : i \in 1..Len(Records)} : r.path = p).content >>
    ELSE <<>>

\* lines i < k of doc open and close the tag of node n; a directory's tag
\* encloses the tags of its children in their order, a file's tag holds
\* the content of its record (as a CDATA section or as text) or nothing
RECURSIVE TagOfNodeAt(_, _, _, _)
TagOfNodeAt(doc, n, i, k) ==
    /\ i >= 1 /\ i < k /\ k <= Len(doc)
    /\ doc[i].kind = "open" /\ doc[i].tag = SanitizeTagName(n.name)
    /\ doc[k].kind = "close" /\ doc[k].tag = SanitizeTagName(n.name)
    /\ IF n.is_dir
       THEN \E cut \in [0..Len(n.children) -> i..k] :
                /\ cut[0] = i
                /\ Len(n.children) = 0 => k = i + 1
                /\ Len(n.children) > 0 => cut[Len(n.children)] = k - 1
                /\ \A c \in 1..Len(n.children) :
                       TagOfNodeAt(doc, n.children[c], cut[c - 1] + 1, cut[c])
       ELSE IF ContentAt(n.path) = <<>>
       THEN k = i + 1
       ELSE /\ k = i + 2
            /\ doc[i + 1].kind = "raw"
            /\ doc[i + 1].text \in {WrapContent(ContentAt(n.path)[1]), ContentAt(n.path)[1]}

(***************************************************************************)
(* C11. The tag part of a returned document mirrors the structure tree:    *)
(* right after the outline comes the tag of the root node, named by the    *)
(* sanitized node name; each directory tag encloses the tags of its        *)
(* children in the order of the children sequence; each file tag holds     *)
(* the content of the record with the node's path, or nothing when no      *)
(* record has that path.                                                   *)
(***************************************************************************)
C11_TagsMirrorTree ==
    xml_out.status = "returned" =>
        \E k \in 1..Len(Doc) :
            TagOfNodeAt(Doc, RootNode, LineOf(Doc, "</structure>") + 1, k)

(***************************************************************************)
(* The outline the structure tree calls for: one entry per node below the  *)
(* root in depth-first pre-order, with whether it is its parent's last     *)
(* child.                                                                  *)
(***************************************************************************)
RECURSIVE PreOrder(_)
RECURSIVE PreOrderOfChildren(_, _)
PreOrderOfChildren(children, i) ==
    IF i > Len(children) THEN <<>>
    ELSE << [name |-> children[i].name, is_dir |-> children[i].is_dir,
             last |-> (i = Len(children))] >>
         \o PreOrder(children[i])
         \o PreOrderOfChildren(children, i + 1)

PreOrder(n) == PreOrderOfChildren(n.children, 1)

\* '└── ' for a last child, '├── ' otherwise
Connector(last) ==
    IF last THEN <<9492, 9472, 9472, 32>> ELSE <<9500, 9472, 9472, 32>>

OutlineEntry(e) ==
    Connector(e.last) \o e.name \o (IF e.is_dir THEN <<SLASH>> ELSE <<>>)

(***************************************************************************)
(* C12. The outline of a returned document is a function of the structure  *)
(* tree: the root line "<name>/" followed by exactly one line per node of  *)
(* the tree in depth-first pre-order, each ending in its connector, the    *)
(* node name and, for a directory, "/"; so an entry without a node has no  *)
(* line.                                                                   *)
(***************************************************************************)
C12_OutlineFromTree ==
    xml_out.status = "returned" =>
        LET lines == OutlineOf(Doc)
            nodes == PreOrder(RootNode)
        IN /\ Len(lines) = 1 + Len(nodes)
           /\ lines[1].kind = "raw"
           /\ lines[1].text = RootName \o <<SLASH>>
           /\ \A i \in 1..Len(nodes) :
                  /\ lines[i + 1].kind = "raw"
                  /\ EndsWith(lines[i + 1].text, OutlineEntry(nodes[i]))

\* a character the XML text of a document cannot hold
HasInvalidChar(text) == \E i \in 1..Len(text) : ~IsXmlChar(text[i])

(***************************************************************************)
(* C13. Content never corrupts the document: generate_xml called with the  *)
(* records of a scan returns a well-formed document, also when a record    *)
(* holds a control character that is not valid XML text.                   *)
(***************************************************************************)
C13_ContentNeverCorrupts ==
    xml_arg = "list" =>
        /\ xml_out.status = "returned"
        /\ WellFormed(Doc)

(***************************************************************************)
(* C14. generate_xml never returns a document that fails the               *)
(* well-formedness self-check: after every call either a well-formed       *)
(* document was returned, or an error was raised and no document, partial  *)
(* or unchecked, was handed to the caller.                                 *)
(***************************************************************************)
C14_SelfCheckGuardsReturn ==
    xml_arg # "none" =>
        \/ xml_out.status = "returned" /\ WellFormed(Doc)
        \/ xml_out.status \in {"ValueError", "TypeError"} /\ Doc = <<>>

\* the self-check has rejected a document holding an invalid character
C14_Witness ==
    /\ xml_arg = "list"
    /\ xml_out.status = "ValueError"
    /\ \E i \in 1..Len(Records) : HasInvalidChar(Records[i].content)

\* a valid tag identifier: not empty, only letters, digits, '-', '_', '.',
\* a letter or underscore first, no two separators side by side
ValidTagId(t) ==
    /\ t # <<>>
    /\ \A i \in 1..Len(t) : IsTagChar(t[i])
    /\ IsAlpha(t[1]) \/ t[1] = UNDERSCORE
    /\ \A i \in 1..(Len(t) - 1) : ~(IsSeparator(t[i]) /\ IsSeparator(t[i + 1]))

Unreadable(e) == e.kind = "file" /\ ~CanOpen(EntryName(e))

FsSkipped(fsys) == {e \in fsys : ~Unreadable(e)}

FsReadable(fsys) ==
    {IF Unreadable(e) THEN [e EXCEPT !.path = Append(ParentPath(e), <<98, 98, 46, 115>>)]
     ELSE e : e \in fsys}

\* the tree of a scan and its records other than those of the stand-in files
OthersOf(r) ==
    LET Other(rec) == ~EndsWith(rec.path, <<SLASH, 98, 98, 46, 115>>)
    IN [structure |-> r.node, files_content |-> SelectSeq(r.fc, Other)]

(***************************************************************************)
(* C16. Failures are isolated to the failing item: when reading one file   *)
(* raises an I/O error, the scan gives every other entry the structure     *)
(* node and the content record it gets when the failing file is skipped,   *)
(* or those it gets when the error does not occur.                         *)
(***************************************************************************)
C16_FailureIsolated ==
    Scanned =>
        \/ result[1] = OthersOf(Scan(FsSkipped(fs), config))
        \/ result[1] = OthersOf(Scan(FsReadable(fs), config))

(***************************************************************************)
(* C17. scan_directory on a root path that does not exist raises           *)
(* FileNotFoundError and returns no ScanResult; it raises before any       *)
(* state is reset, so the counters, the extracted records and the result   *)
(* of the earlier scan are what they were.                                 *)
(***************************************************************************)
C17_MissingRootLeavesState ==
    [][ScanMissingRoot =>
          /\ scan_status' = "FileNotFoundError"
          /\ UNCHANGED <<structure_items_count, content_files_by_depth,
                         files_content, result, manager,
                   main_run,
                   heap,
                   dicts,
                   procs>>]_vars

\* the call failed on a processor that holds counters and records
C17_Witness ==
    /\ scan_status = "FileNotFoundError"
    /\ Scanned
    /\ files_content # <<>>
    /\ \E d \in DOMAIN structure_items_count : structure_items_count[d] > 0

(***************************************************************************)
(* C18. Idempotence: a second scan of the unchanged tree on the same       *)
(* FileProcessor, with the same settings, returns a ScanResult equal to    *)
(* the one before: same tree, same records in the same order.  Nothing of  *)
(* the first scan's counters and records carries over.                     *)
(***************************************************************************)
C18_ScanIdempotent ==
    prev_result # <<>> => result = prev_result

\* a second scan has run on a processor whose first scan reached both caps
C18_Witness ==
    /\ prev_result # <<>>
    /\ Records # <<>>
    /\ \E d \in DOMAIN structure_items_count :
           structure_items_count[d] >= config.structure_exclude.max_files
    /\ \E d \in DOMAIN content_files_by_depth :
           content_files_by_depth[d] >= config.content_exclude.max_files

(***************************************************************************)
(* Vocabulary of the configuration properties.                             *)
(***************************************************************************)
Loaded == manager.config # <<>>

\* the value written in the loaded file under section / key, Absent if none
Written(section, key) ==
    LET user == manager.file.value
    IN IF IsDict(user) /\ section \in DOMAIN user.obj /\ IsDict(user.obj[section])
                       /\ key \in DOMAIN user.obj[section].obj
       THEN user.obj[section].obj[key]
       ELSE Absent

WrittenSize ==
    IF IsDict(manager.file.value) /\ "max_file_size_kb" \in DOMAIN manager.file.value.obj
    THEN manager.file.value.obj["max_file_size_kb"]
    ELSE Absent

IsInteger(v) == DOMAIN v = {"int"}

\* a value the file holds and that is not an integer
BadInteger(v) == v # Absent /\ ~IsInteger(v)

\* the file is missing, is not valid JSON, or holds a non-integer
\* max_file_size_kb, max_depth or max_files
FileIsFaulty ==
    \/ manager.file.kind \in {"missing", "invalid_json"}
    \/ /\ manager.file.kind = "json"
       /\ \/ BadInteger(WrittenSize)
          \/ \E section \in {"content_exclude", "structure_exclude"},
                key \in {"max_depth", "max_files"} : BadInteger(Written(section, key))

(***************************************************************************)
(* C19. Configuration loading never fails the run: after loading a file    *)
(* that is missing, is not valid JSON, or holds a non-integer              *)
(* max_file_size_kb, max_depth or max_files, the configuration equals the  *)
(* documented defaults, whatever was loaded before.                        *)
(***************************************************************************)
C19_FaultyFileGivesDefaults ==
    (Loaded /\ FileIsFaulty) => manager.config[1] = DefaultConfig

\* the file is a JSON object whose values all have the documented types and
\* which holds only documented keys
FileIsValid ==
    /\ manager.file.kind = "json"
    /\ IsDict(manager.file.value)
    /\ "exclude_structure" \notin DOMAIN manager.file.value.obj
    /\ \A section \in {"content_exclude", "structure_exclude"} :
           section \in DOMAIN manager.file.value.obj
               => IsDict(manager.file.value.obj[section])
    /\ ~FileIsFaulty

(***************************************************************************)
(* C20. Loading a valid configuration file preserves the user's values of  *)
(* both rule sets: what the file holds under content_exclude is what       *)
(* get_content_exclude() returns, what it holds under structure_exclude    *)
(* is what get_structure_exclude() returns, and only the keys absent from  *)
(* the file take their default values.                                     *)
(***************************************************************************)
C20_UserValuesPreserved ==
    (Loaded /\ FileIsValid) =>
        /\ \A k \in DOMAIN GetContentExclude :
               GetContentExclude[k] =
                   IF Written("content_exclude", k) # Absent
                   THEN Written("content_exclude", k)
                   ELSE DefaultConfig.content_exclude[k]
        /\ \A k \in DOMAIN GetStructureExclude :
               GetStructureExclude[k] =
                   IF Written("structure_exclude", k) # Absent
                   THEN Written("structure_exclude", k)
                   ELSE DefaultConfig.structure_exclude[k]

\* the stage at which a run stopped
LastStage == main_run.calls[Len(main_run.calls)]

ValidProjectName(t) ==
    /\ t # <<>>
    /\ \A i \in 1..Len(t) : IsProjectNameChar(t[i])
    /\ IsAlpha(t[1]) \/ t[1] = UNDERSCORE

(***************************************************************************)
(* C22. sanitize_project_name returns a non-empty name of [A-Za-z0-9_-]    *)
(* that begins with a letter or an underscore, and returns a name that     *)
(* already has that form unchanged.                                        *)
(***************************************************************************)
C22_ProjectNameValid ==
    tag_call.fn = "sanitize_project_name" =>
        /\ ValidProjectName(tag_call.out)
        /\ ValidProjectName(tag_call.input) => tag_call.out = tag_call.input

\* the children of a node list directory nodes before file nodes, and each
\* group in the case-insensitive order of the names
ChildrenOrdered(n) ==
    \A i, j \in 1..Len(n.children) :
        i < j =>
            /\ ~(~n.children[i].is_dir /\ n.children[j].is_dir)
            /\ n.children[i].is_dir = n.children[j].is_dir =>
                   StrLess(Lower(n.children[i].name), Lower(n.children[j].name))

\* the position of the record of an entry
RecIndex(e) == CHOOSE i \in 1..Len(Records) : Records[i].path = RelStr(e.path)

\* the length of the longest common prefix of two paths
RECURSIVE CommonLen(_, _)
CommonLen(p, q) ==
    IF p = <<>> \/ q = <<>> \/ Head(p) # Head(q) THEN 0
    ELSE 1 + CommonLen(Tail(p), Tail(q))

\* depth-first discovery, subdirectories before the files of a directory:
\* whether the file e is met before the file f
DiscoveredBefore(e, f) ==
    LET pe == ParentPath(e)
        pf == ParentPath(f)
        k == CommonLen(pe, pf)
    IN IF pe = pf THEN StrLess(Lower(EntryName(e)), Lower(EntryName(f)))
       ELSE IF k = Len(pe) THEN FALSE          \* f lies in a subdirectory of e's
       ELSE IF k = Len(pf) THEN TRUE           \* e lies in a subdirectory of f's
       ELSE StrLess(Lower(pe[k + 1]), Lower(pf[k + 1]))

(***************************************************************************)
(* C23. In every node the children list directories before files, each     *)
(* group in case-insensitive alphabetical order; the content records are   *)
(* in depth-first discovery order, the records of files in subdirectories  *)
(* before the records of the files lying directly in the directory.        *)
(***************************************************************************)
C23_Ordering ==
    Scanned =>
        /\ \A n \in NodesOf(RootNode) : ChildrenOrdered(n)
        /\ \A e, f \in FileEntries :
               (HasRecord(e) /\ HasRecord(f) /\ RecIndex(e) < RecIndex(f)) =>
                   DiscoveredBefore(e, f)

\* the entries of the tree that are not directories
NonDirEntries == {e \in fs : e.kind # "dir"}

\* the records read from the entry e: its text, at the depth of its directory
RecordsOf(e) ==
    {i \in 1..Len(Records) : /\ Records[i].content = FileText(EntryName(e))
                             /\ Records[i].depth = DirDepth(e)
                             /\ Records[i].path = RelStr(e.path)}

\* the file nodes that stand for the entry e in the node of its directory
NodesFor(e) ==
    IF Walked(ParentPath(e))
    THEN {i \in FileNodesIn(ParentPath(e)) :
              DirNode(ParentPath(e)).children[i].name = EntryName(e)}
    ELSE {}

(***************************************************************************)
(* C24. Every file yields at most one content record and no two records    *)
(* carry the same path; the path of a record is the slash-joined chain of  *)
(* names from the name of the root to the file, and it is the path of the  *)
(* file's node when the file has one; the record of a file that has a node *)
(* is not an orphan.                                                       *)
(***************************************************************************)
C24_RecordPaths ==
    Scanned =>
        /\ \A i, j \in 1..Len(Records) : Records[i].path = Records[j].path => i = j
        /\ \A i \in 1..Len(Records) : \E e \in NonDirEntries : i \in RecordsOf(e)
        /\ \A e \in NonDirEntries :
               /\ Cardinality(RecordsOf(e)) <= 1
               /\ \A k \in NodesFor(e) :
                      /\ DirNode(ParentPath(e)).children[k].path = RelStr(e.path)
                      /\ \A i \in RecordsOf(e) : i \notin Orphans

\* two files of the same name, one in the root and one in a subdirectory,
\* both with a record, the second also with a node
C24_Witness ==
    /\ Scanned
    /\ \E e, f \in FileEntries :
           /\ EntryName(e) = EntryName(f)
           /\ Len(e.path) = 1 /\ Len(f.path) = 2
           /\ NodesFor(f) # {}
           /\ RecordsOf(e) # {} /\ RecordsOf(f) # {}

\* the entries of the directory at p that the loop treats as files
FilesOf(p) == {e \in IterDir(fs, p) : e.kind # "dir"}

\* a file the structure rules let through
StructureEligible(e) == ~StructureExcluded(EntryName(e))

\* a file the content rules let through: a text file within the content depth
ContentEligible(e) ==
    /\ ~ContentExcluded(EntryName(e))
    /\ ~StatRaises(EntryName(e))
    /\ IsTextFile(EntryName(e))
    /\ DirDepth(e) <= config.content_exclude.max_depth

\* the content-eligible files of e's directory that come before e in sort order
EligibleBefore(e) ==
    {f \in FilesOf(ParentPath(e)) : ContentEligible(f) /\ KeyLess(f, e)}

(***************************************************************************)
(* C25. The caps cut a prefix: in every walked directory the files with a  *)
(* node are structure-eligible and the files with a record are             *)
(* content-eligible, no eligible file is included after an earlier         *)
(* eligible file of the same directory (in sort order) was left out, and a *)
(* file, in the structure or not, that is preceded by at least content     *)
(* max_files content-eligible files of its directory has no record.        *)
(***************************************************************************)
C25_CapsCutPrefix ==
    Scanned =>
        \A p \in {<<>>} \cup {d.path : d \in DirEntries} :
            Walked(p) =>
                /\ \A e \in FilesOf(p) :
                       /\ HasNode(e) => StructureEligible(e)
                       /\ HasRecord(e) => ContentEligible(e)
                       /\ Cardinality(EligibleBefore(e)) >= config.content_exclude.max_files
                              => ~HasRecord(e)
                /\ \A e, f \in FilesOf(p) :
                       KeyLess(e, f) =>
                           /\ (StructureEligible(e) /\ StructureEligible(f) /\ HasNode(f))
                                  => HasNode(e)
                           /\ (ContentEligible(e) /\ ContentEligible(f) /\ HasRecord(f))
                                  => HasRecord(e)

\* a directory in which the content cap cuts: of two files that are eligible
\* under both rule sets and have a node, only the first has a record
C25_Witness ==
    /\ Scanned
    /\ \E p \in {<<>>} \cup {d.path : d \in DirEntries} :
           /\ Walked(p)
           /\ \E e, f \in FilesOf(p) :
                  /\ KeyLess(e, f) /\ ContentEligible(e) /\ ContentEligible(f)
                  /\ HasNode(e) /\ HasNode(f)
                  /\ HasRecord(e) /\ ~HasRecord(f)

(***************************************************************************)
(* What an XML 1.0 parser reads back from the content of an element that   *)
(* holds text and CDATA sections only.                                     *)
(***************************************************************************)
\* section 2.11 of XML 1.0: before parsing, "\r\n" and every other "\r"
\* become "\n", inside CDATA sections too
NormalizeEol(s) == Replace(Replace(s, <<13, 10>>, <<10>>), <<13>>, <<10>>)

\* the first position from i on at which ']]>' occurs, 0 if there is none
FirstClose(s, i) ==
    LET at == {j \in i..Len(s) : OccursAt(s, CDataClose, j)}
    IN IF at = {} THEN 0 ELSE CHOOSE j \in at : \A k \in at : j <= k

\* the text of the element content s: <<t>>, or <<>> when s is not well-formed
RECURSIVE ParseText(_)
ParseText(s) ==
    IF s = <<>> THEN << <<>> >>
    ELSE IF OccursAt(s, CDataOpen, 1)
    THEN LET end == FirstClose(s, Len(CDataOpen) + 1)
         IN IF end = 0 THEN <<>>
            ELSE LET rest == ParseText(SubSeq(s, end + Len(CDataClose), Len(s)))
                 IN IF rest = <<>> THEN <<>>
                    ELSE << SubSeq(s, Len(CDataOpen) + 1, end - 1) \o rest[1] >>
    ELSE IF s[1] \in {60, 38} \/ OccursAt(s, CDataClose, 1) THEN <<>>
    ELSE LET rest == ParseText(Tail(s))
         IN IF rest = <<>> THEN <<>> ELSE << <<s[1]>> \o rest[1] >>

ParseContent(s) == ParseText(NormalizeEol(s))

\* the call of _wrap_content made, on a content of valid XML characters
Wrapped ==
    /\ tag_call.fn = "_wrap_content"
    /\ \A i \in 1..Len(tag_call.input) : IsXmlChar(tag_call.input[i])

(***************************************************************************)
(* C26, as stated.  For every content of valid XML characters, the text    *)
(* produced by _wrap_content parses back to exactly the content: no ']]>'  *)
(* of the content ends the CDATA block early.                              *)
(***************************************************************************)
C26_WrapRoundTrip_Stated ==
    Wrapped => ParseContent(tag_call.out) = <<tag_call.input>>

(***************************************************************************)
(* C26, amended.  For every content of valid XML characters that holds no  *)
(* carriage return, the text produced by _wrap_content parses back to      *)
(* exactly the content: no ']]>' of the content ends the CDATA block       *)
(* early.                                                                  *)
(***************************************************************************)
C26_WrapRoundTrip ==
    (Wrapped /\ \A i \in 1..Len(tag_call.input) : tag_call.input[i] # 13) =>
        ParseContent(tag_call.out) = <<tag_call.input>>

\* a content with two adjacent occurrences of ']]>' and no carriage return
C26_Witness ==
    /\ Wrapped
    /\ \A i \in 1..Len(tag_call.input) : tag_call.input[i] # 13
    /\ \E i \in 1..Len(tag_call.input) :
           /\ OccursAt(tag_call.input, CDataClose, i)
           /\ OccursAt(tag_call.input, CDataClose, i + Len(CDataClose))

\* the first ScanResult returned, as the caller reads it now
KeptNow ==
    [structure |-> heap.kept[1].structure,
     files_content |-> heap.lists[heap.kept[1].files_content]]

(***************************************************************************)
(* C27. A ScanResult returned by scan_directory is left unchanged by every *)
(* later scan_directory call on the same processor: its structure and its  *)
(* files_content list keep the values they had when the call returned.     *)
(***************************************************************************)
C27_ResultNotMutated ==
    heap.kept # <<>> =>
        KeptNow.files_content = heap.kept[1].at_return

\* a later scan has returned other records than the first one, which still
\* holds a record
C27_Witness ==
    /\ heap.kept # <<>>
    /\ heap.kept[1].files_content # heap.self_fc
    /\ heap.kept[1].at_return # <<>>
    /\ result[1].files_content # heap.kept[1].at_return

(***************************************************************************)
(* C28. The rule sets of a scanner are fixed at its construction: whatever *)
(* the manager loads later, a FileProcessor or XMLGenerator reads through  *)
(* self.config the settings of the file the manager had loaded when the    *)
(* object was constructed; so an object constructed after a reload reads   *)
(* the new settings and the objects constructed before it the old ones.    *)
(***************************************************************************)
C28_ConfigFixedAtConstruction ==
    \A i \in 1..Len(dicts.built) :
        Settings(dicts, dicts.built[i].config) = LoadConfig(dicts.built[i].file)

\* an object constructed before a reload that changed the settings, and one
\* constructed after it
C28_Witness ==
    /\ Len(dicts.built) = 2
    /\ LoadConfig(dicts.built[1].file) # LoadConfig(manager.file)
    /\ dicts.built[2].file = manager.file
    /\ Settings(dicts, dicts.built[2].config) = manager.config[1]

\* the ScanResult of a scan of the tree fsys run alone
ScanAlone(fsys) ==
    LET r == Scan(fsys, config)
    IN <<[structure |-> r.node, files_content |-> r.fc]>>

(***************************************************************************)
(* C29. Two scans of different roots by two FileProcessor instances, with  *)
(* their steps interleaved in any order, each return the ScanResult of the *)
(* same scan run alone: neither consumes the other's per-depth budget or   *)
(* appends to the other's records.                                         *)
(***************************************************************************)
C29_InterleavedScans ==
    \A i \in 1..2 :
        procs.p[i].pc = "returned" => procs.p[i].result = ScanAlone(procs.p[i].root)

\* both scans have returned, each having taken steps while the other ran
C29_Witness ==
    \A i \in 1..2 :
        /\ procs.p[i].pc = "returned"
        /\ procs.p[i].mixed
        /\ procs.p[i].result[1].files_content # <<>>

(***************************************************************************)
(* C30. _sanitize_tag_name is idempotent: a second pass over the name a    *)
(* first pass returned gives that name again.                              *)
(***************************************************************************)
C30_SanitizeIdempotent ==
    tag_call.fn = "_sanitize_tag_name" => SanitizeTagName(tag_call.out) = tag_call.out

\* a call on a name that begins with '-' or '.' and holds a run of
\* separators, so that the first pass both fixes the lead and collapses
C30_Witness ==
    /\ tag_call.fn = "_sanitize_tag_name"
    /\ Len(tag_call.input) >= 3
    /\ \A i \in 1..3 : IsSeparator(tag_call.input[i])
    /\ tag_call.input[1] # UNDERSCORE
    /\ tag_call.out # tag_call.input

====
